---- MODULE Spec2Model ----
(***************************************************************************)
(* DevFolio backend: the relational store, the token service, the          *)
(* authentication middleware and the route handlers, as a state machine.   *)
(* Every `await query(...)` is one atomic statement against the store; a   *)
(* handler with several awaits is several steps of its worker, and other   *)
(* workers run in between.                                                 *)
(***************************************************************************)
EXTENDS Integers, Sequences, FiniteSets, TLC

\* ------------------------------------------------------------- bounds
MaxUsers == 2          \* user identifiers the store hands out
NSlots == 2            \* requests in flight at once
MaxTime == 9           \* clock ticks (days) of the token specification
MaxTokens == 1         \* tokens issued in the token specification
MaxToggles == 1        \* toggle requests in flight at once
MaxMessages == 2       \* messages sent in the message specification

\* ---------------------------------------------------- program constants
DefaultExpiresIn == 7  \* '7d', in days
MinPasswordLength == 6

Slots == 1..NSlots
UserIds == 1..MaxUsers

VARIABLES
  db,       \* the committed store: [users, portfolios, user_skills, projects]
  nextId,   \* the next user identifier the store generates
  pc,       \* pc[s]: where worker s is in its handler
  req,      \* req[s]: the request worker s is handling, between its awaits
  resp,     \* the last response sent
  now,      \* the clock, in days
  secret,   \* process.env.JWT_SECRET
  expiresEnv, \* process.env.JWT_EXPIRES_IN, in days, when set
  tokens    \* the bearer tokens handed out so far: [token, user, at]

vars == <<db, nextId, pc, req, resp, now, secret, expiresEnv, tokens>>

\* ------------------------------------------------------------- values
\* An optional value (a request field, an environment variable): <<>> when
\* it is absent (undefined), <<v>> when it is present with value v.
None == <<>>
Some(v) == <<v>>
IsPresent(o) == o # None
ValueOf(o) == o[1]

\* ------------------------------------------------------------- strings
\* A text is a sequence of atoms; " " is the whitespace atom.
SP == " "

RECURSIVE TrimLeft(_)
TrimLeft(t) == IF t # <<>> /\ Head(t) = SP THEN TrimLeft(Tail(t)) ELSE t

RECURSIVE TrimRight(_)
TrimRight(t) ==
  IF t # <<>> /\ t[Len(t)] = SP THEN TrimRight(SubSeq(t, 1, Len(t) - 1)) ELSE t

\* express-validator's trim() sanitizer
Trim(t) == TrimRight(TrimLeft(t))

DefaultSummary == <<"Professional developer with a passion for building great software.">>
DefaultPortfolioText == <<>>

\* ------------------------------------------------------- token service
NoHeader == [kind |-> "none"]
Garbage == [kind |-> "garbage"]
Keys == {"k1", "k2"}
Verified(userId) == [ok |-> TRUE, userId |-> userId, error |-> "none"]
AuthError(e) == [ok |-> FALSE, userId |-> 0, error |-> e]

\* process.env.JWT_EXPIRES_IN || '7d'
ExpiresIn(env) == IF IsPresent(env) THEN ValueOf(env) ELSE DefaultExpiresIn

generateTokenShortLived(userId, key, env, t) ==
  [kind |-> "jwt", userId |-> userId, iat |-> t, exp |-> t + 1, key |-> key]

generateTokenWrongSubject(userId, key, env, t) ==
  [kind |-> "jwt", userId |-> userId + 1, iat |-> t, exp |-> t + ExpiresIn(env),
   key |-> key]

\* jwt.sign({ userId }, JWT_SECRET, { expiresIn })
generateToken(userId, key, env, t) ==
  [kind |-> "jwt", userId |-> userId, iat |-> t, exp |-> t + ExpiresIn(env),
   key |-> key]

\* jwt.verify(token, JWT_SECRET): the signature first, then the expiry
verify(token, key, t) ==
  IF token.kind # "jwt" THEN AuthError("Malformed")
  ELSE IF token.key # key THEN AuthError("InvalidSignature")
  ELSE IF t >= token.exp THEN AuthError("Expired")
  ELSE Verified(token.userId)

\* ------------------------------------------------------------ the store
\* A JSON value of a request body: an array or something else.
JArray(xs) == [t |-> "array", v |-> xs]
JOther == [t |-> "string", v |-> <<>>]
IsArray(j) == j.t = "array"

Range(f) == {f[i] : i \in DOMAIN f}

\* message_seq counts the identifiers the store has generated for messages
EmptyDb == [users |-> {}, portfolios |-> {}, user_skills |-> {}, projects |-> {},
            social_links |-> {}, messages |-> {}, message_seq |-> 0]

Ok(d) == [ok |-> TRUE, db |-> d, err |-> "none"]
Fail(d, e) == [ok |-> FALSE, db |-> d, err |-> e]

\* An identifier is well formed when it has UUID shape; 0 stands for a
\* string that has not.
IsUUID(id) == id > 0

\* users.username and users.email are unique
UniqueViolation(d, username, email) ==
  \E u \in d.users : u.username = username \/ u.email = email

\* ON DELETE CASCADE from users to the rows that belong to them
CascadeDeleteUser(d, id) ==
  [users |-> {u \in d.users : u.id # id},
   portfolios |-> {p \in d.portfolios : p.user_id # id},
   user_skills |-> {k \in d.user_skills : k.user_id # id},
   projects |-> {p \in d.projects : p.user_id # id},
   social_links |-> {l \in d.social_links : l.user_id # id},
   messages |-> {m \in d.messages : m.sender_id # id /\ m.recipient_id # id},
   message_seq |-> d.message_seq]

\* INSERT INTO users (...) VALUES (...) RETURNING id, ...
InsertUser(d, st) ==
  IF UniqueViolation(d, st.username, st.email)
  THEN Fail(d, "23505")
  ELSE Ok([d EXCEPT !.users = @ \cup
            {[id |-> st.id, username |-> st.username, email |-> st.email,
              password_hash |-> st.password_hash]}])

\* INSERT INTO portfolios (user_id, summary, experience, education)
InsertPortfolio(d, st) ==
  Ok([d EXCEPT !.portfolios = @ \cup
       {[user_id |-> st.user_id, summary |-> st.summary,
         experience |-> st.experience, education |-> st.education]}])

\* UPDATE portfolios SET <the fields of st.set> WHERE user_id = $n
UpdatePortfolio(d, st) ==
  Ok([d EXCEPT !.portfolios =
       {IF p.user_id = st.user_id
        THEN [f \in DOMAIN p |-> IF f \in DOMAIN st.set THEN st.set[f] ELSE p[f]]
        ELSE p : p \in @}])

\* DELETE FROM user_skills WHERE user_id = $1
DeleteSkills(d, st) ==
  Ok([d EXCEPT !.user_skills = {k \in @ : k.user_id # st.user_id}])

\* INSERT INTO user_skills (user_id, skill) VALUES ($1, $2), ($1, $3), ...
InsertSkills(d, st) ==
  Ok([d EXCEPT !.user_skills = @ \cup
       {[user_id |-> st.user_id, skill |-> x] : x \in Range(st.skills)}])

\* UPDATE projects SET is_featured = false WHERE user_id = $1
ClearFeatured(d, st) ==
  Ok([d EXCEPT !.projects =
       {IF p.user_id = st.user_id THEN [p EXCEPT !.is_featured = FALSE] ELSE p
        : p \in @}])

\* UPDATE projects SET is_featured = true WHERE user_id = $1 AND id IN (...)
\* The store rejects a parameter that is no UUID (22P02).
SetFeatured(d, st) ==
  IF \E x \in Range(st.ids) : ~IsUUID(x)
  THEN Fail(d, "22P02")
  ELSE Ok([d EXCEPT !.projects =
            {IF p.user_id = st.user_id /\ p.id \in Range(st.ids)
             THEN [p EXCEPT !.is_featured = TRUE] ELSE p : p \in @}])

\* DELETE FROM users WHERE id = $1
DeleteUser(d, st) == Ok(CascadeDeleteUser(d, st.id))

\* One SQL statement st of a handler, executed on store d. st.tx is TRUE for
\* a statement issued on the transaction's client (client.query) and FALSE
\* for one issued on the pool (query).
Exec(d, st) ==
  CASE st.op = "insert_user" -> InsertUser(d, st)
    [] st.op = "insert_portfolio" -> InsertPortfolio(d, st)
    [] st.op = "update_portfolio" -> UpdatePortfolio(d, st)
    [] st.op = "delete_skills" -> DeleteSkills(d, st)
    [] st.op = "insert_skills" -> InsertSkills(d, st)
    [] st.op = "clear_featured" -> ClearFeatured(d, st)
    [] st.op = "set_featured" -> SetFeatured(d, st)
    [] st.op = "delete_user" -> DeleteUser(d, st)

\* The statements of a transaction callback, run in order. base is the
\* committed store, which a statement issued outside the client changes at
\* once; work is what the transaction sees. The statement numbered fault
\* meets a store fault. A failure rolls back to base.
RECURSIVE RunStmts(_, _, _, _, _)
RunStmts(base, work, stmts, i, fault) ==
  IF i > Len(stmts) THEN Ok(work)
  ELSE LET r == IF fault = i THEN Fail(work, "StoreFault") ELSE Exec(work, stmts[i])
       IN IF ~r.ok THEN Fail(base, r.err)
          ELSE RunStmts(IF stmts[i].tx THEN base ELSE Exec(base, stmts[i]).db,
                        r.db, stmts, i + 1, fault)

\* transaction(callback): BEGIN, the callback, COMMIT; ROLLBACK and rethrow
\* on an error
transaction(d, stmts, fault) == RunStmts(d, d, stmts, 1, fault)

\* ------------------------------------------------- authentication step
\* authenticate: a request without a verifiable bearer token is answered
\* 401; otherwise the token's user identifier is attached to the request.
authenticate(h, key, t) ==
  IF h = NoHeader THEN [ok |-> FALSE, user |-> 0]
  ELSE LET v == verify(h, key, t)
       IN IF ~v.ok THEN [ok |-> FALSE, user |-> 0]
          ELSE [ok |-> TRUE, user |-> v.userId]

\* optionalAuth: a request without a header goes on with no identity
\* (user 0); a header that does not verify is answered 401.
optionalAuth(h, key, t) ==
  IF h = NoHeader THEN [ok |-> TRUE, user |-> 0] ELSE authenticate(h, key, t)

Headers == {NoHeader, Garbage} \cup {x.token : x \in tokens}

\* ------------------------------------------------------------ responses
NoReq == [route |-> "none"]
NoData == [none |-> TRUE]
Resp(route, status, message, data) ==
  [route |-> route, status |-> status, message |-> message, data |-> data]
NoResp == Resp("none", 0, "none", NoData)
Unauthorized(route) == Resp(route, 401, "Unauthorized", NoData)
ValidationFailed(route) == Resp(route, 400, "Validation failed", NoData)

\* ------------------------------------------------- POST /auth/register
Usernames == {"alice", "bob"}
\* An e-mail address is a sequence of atoms; "A" is the upper-case "a".
RawEmails == {<<"a", "@x.io">>, <<"A", "@x.io">>, <<"b", "@x.io">>}
Pw5 == <<"p", "a", "s", "s", "5">>
Pw6 == <<"s", "e", "c", "r", "e", "t">>
Passwords == {Pw5, Pw6}
RegisterBodies == [username : Usernames, email : RawEmails, password : Passwords]

Lower(c) == IF c = "A" THEN "a" ELSE c
\* express-validator's normalizeEmail(): lower-cases the address
normalizeEmail(e) == [i \in DOMAIN e |-> Lower(e[i])]

\* validations.register: the rules on the password and the e-mail sanitizer
\* (the names drawn here satisfy the rules on name and username)
RegisterValid(body) == Len(body.password) >= MinPasswordLength
RegisterSanitize(body) == [body EXCEPT !.email = normalizeEmail(@)]

\* bcrypt.hash(password, salt): one-way; bcrypt.compare matches it with the
\* same password only
Hash(password) == [hash_of |-> password]

\* SELECT id FROM users WHERE email = $1 OR username = $2
existingUser(d, body) ==
  {u \in d.users : u.email = body.email \/ u.username = body.username}

RegisterStmtsUserOutsideTx(id, body) ==
  << [op |-> "insert_user", tx |-> FALSE, id |-> id, username |-> body.username,
      email |-> body.email, password_hash |-> Hash(body.password)],
     [op |-> "insert_portfolio", tx |-> TRUE, user_id |-> id,
      summary |-> DefaultSummary, experience |-> DefaultPortfolioText,
      education |-> DefaultPortfolioText] >>

RegisterStmtsNoPortfolio(id, body) ==
  << [op |-> "insert_user", tx |-> TRUE, id |-> id, username |-> body.username,
      email |-> body.email, password_hash |-> Hash(body.password)] >>

\* The transaction callback of register: the user row, then its portfolio row.
RegisterStmts(id, body) ==
  << [op |-> "insert_user", tx |-> TRUE, id |-> id, username |-> body.username,
      email |-> body.email, password_hash |-> Hash(body.password)],
     [op |-> "insert_portfolio", tx |-> TRUE, user_id |-> id,
      summary |-> DefaultSummary, experience |-> DefaultPortfolioText,
      education |-> DefaultPortfolioText] >>

RegisterCheckResponseNoPrecheck(d, body, fault) ==
  IF ~RegisterValid(body) THEN ValidationFailed("register")
  ELSE IF fault = 1
  THEN Resp("register", 500, "Error registering user", [error |-> "StoreFault"])
  ELSE NoResp

\* register up to its transaction: validation, then the existence check.
\* NoResp when the handler goes on to the transaction.
RegisterCheckResponse(d, body, fault) ==
  IF ~RegisterValid(body) THEN ValidationFailed("register")
  ELSE IF fault = 1
  THEN Resp("register", 500, "Error registering user", [error |-> "StoreFault"])
  ELSE IF existingUser(d, RegisterSanitize(body)) # {}
  THEN Resp("register", 400, "User with this email or username already exists", NoData)
  ELSE NoResp

RegisterTxResponseDuplicateAs400(r, id, token) ==
  IF r.ok
  THEN Resp("register", 201, "User registered successfully",
            [user |-> id, token |-> token])
  ELSE IF r.err = "23505"
  THEN Resp("register", 400, "User with this email or username already exists", NoData)
  ELSE Resp("register", 500, "Error registering user", [error |-> r.err])

\* register after its transaction: 201 with the user and a token, or the
\* catch block's 500
RegisterTxResponse(r, id, token) ==
  IF r.ok
  THEN Resp("register", 201, "User registered successfully",
            [user |-> id, token |-> token])
  ELSE Resp("register", 500, "Error registering user", [error |-> r.err])

\* First step of POST /auth/register: validation and the pre-check SELECT.
\* fault is the number of the handler's statement that meets a store fault
\* (1 the SELECT), 0 for none.
RegisterCheck(s, body, fault) ==
  /\ pc[s] = "idle"
  /\ LET r == RegisterCheckResponse(db, body, fault)
     IN IF r # NoResp
        THEN /\ resp' = r
             /\ UNCHANGED <<pc, req>>
        ELSE /\ pc' = [pc EXCEPT ![s] = "reg_tx"]
             /\ req' = [req EXCEPT ![s] =
                         [route |-> "register", body |-> RegisterSanitize(body)]]
             /\ UNCHANGED resp
  /\ UNCHANGED <<db, nextId, now, secret, expiresEnv, tokens>>

\* The outcome of register's transaction on store d with the next identifier
\* id; fault numbers the INSERT that meets a store fault, 0 for none.
RegisterTxResult(d, id, body, fault) == transaction(d, RegisterStmts(id, body), fault)

\* Second step of POST /auth/register: the transaction, the token, the
\* response.
RegisterTx(s, fault) ==
  /\ pc[s] = "reg_tx"
  /\ LET r == RegisterTxResult(db, nextId, req[s].body, fault)
         token == generateToken(nextId, secret, expiresEnv, now)
     IN /\ r.ok => nextId <= MaxUsers
        /\ db' = r.db
        /\ nextId' = IF r.ok THEN nextId + 1 ELSE nextId
        /\ tokens' = IF r.ok
                     THEN tokens \cup {[token |-> token, user |-> nextId, at |-> now]}
                     ELSE tokens
        /\ resp' = RegisterTxResponse(r, nextId, token)
  /\ pc' = [pc EXCEPT ![s] = "idle"]
  /\ req' = [req EXCEPT ![s] = NoReq]
  /\ UNCHANGED <<now, secret, expiresEnv>>

\* ------------------------------------------------ DELETE /users/account
DeleteAccount(s, h) ==
  /\ pc[s] = "idle"
  /\ LET a == authenticate(h, secret, now)
     IN IF ~a.ok
        THEN /\ resp' = Unauthorized("delete_account")
             /\ UNCHANGED db
        ELSE /\ db' = Exec(db, [op |-> "delete_user", tx |-> FALSE, id |-> a.user]).db
             /\ resp' = Resp("delete_account", 200, "Account deleted successfully",
                             NoData)
  /\ UNCHANGED <<nextId, pc, req, now, secret, expiresEnv, tokens>>

\* ------------------------------------------- the accounts specification
Init ==
  /\ db = EmptyDb
  /\ nextId = 1
  /\ pc = [s \in Slots |-> "idle"]
  /\ req = [s \in Slots |-> NoReq]
  /\ resp = NoResp
  /\ now = 0
  /\ secret = "k1"
  /\ expiresEnv = None
  /\ tokens = {}

Next ==
  \/ \E s \in Slots, body \in RegisterBodies, fault \in 0..1 : RegisterCheck(s, body, fault)
  \/ \E s \in Slots, fault \in 0..2 : RegisterTx(s, fault)
  \/ \E s \in Slots, h \in Headers : DeleteAccount(s, h)

Spec == Init /\ [][Next]_vars

\* ---------------------------------------------- the token specification
\* The token service over time: tokens are issued (register, login), the
\* clock advances, the signing key is rotated.
Tick ==
  /\ now < MaxTime
  /\ now' = now + 1
  /\ UNCHANGED <<db, nextId, pc, req, resp, secret, expiresEnv, tokens>>

\* A restart with another JWT_SECRET
RotateKey(k) ==
  /\ k # secret
  /\ secret' = k
  /\ UNCHANGED <<db, nextId, pc, req, resp, now, expiresEnv, tokens>>

\* const token = generateToken(user.id)
IssueToken(u) ==
  /\ Cardinality(tokens) < MaxTokens
  /\ tokens' = tokens \cup
       {[token |-> generateToken(u, secret, expiresEnv, now), user |-> u, at |-> now]}
  /\ UNCHANGED <<db, nextId, pc, req, resp, now, secret, expiresEnv>>

InitToken ==
  /\ db = EmptyDb
  /\ nextId = 1
  /\ pc = [s \in Slots |-> "idle"]
  /\ req = [s \in Slots |-> NoReq]
  /\ resp = NoResp
  /\ now = 0
  /\ secret = "k1"
  /\ expiresEnv \in {None, Some(1), Some(2)}
  /\ tokens = {}

NextToken ==
  \/ Tick
  \/ \E k \in Keys : RotateKey(k)
  \/ \E u \in UserIds : IssueToken(u)

SpecToken == InitToken /\ [][NextToken]_vars

\* --------------------------------------- the authentication specification
RouteMiddlewareAllProtected(route) == "authenticate"

\* The authentication middleware each route is declared with
RouteMiddleware(route) ==
  CASE route = "GET /users" -> "optionalAuth"
    [] route = "GET /projects" -> "optionalAuth"
    [] route = "GET /auth/me" -> "authenticate"
    [] route = "GET /messages/unread/count" -> "authenticate"

AuthRoutes == {"GET /users", "GET /projects", "GET /auth/me", "GET /messages/unread/count"}

Middleware(route, h, key, t) ==
  IF RouteMiddleware(route) = "optionalAuth"
  THEN optionalAuth(h, key, t)
  ELSE authenticate(h, key, t)

\* The handlers behind the middleware: reads of the store. The response
\* carries req.user (0 when no identity is attached).
Handler(route, d, user) ==
  CASE route = "GET /users" ->
         Resp(route, 200, "ok", [user |-> user, rows |-> {u.id : u \in d.users}])
    [] route = "GET /projects" ->
         Resp(route, 200, "ok", [user |-> user, rows |-> {p.id : p \in d.projects}])
    [] route = "GET /auth/me" ->
         IF \E u \in d.users : u.id = user
         THEN Resp(route, 200, "ok", [user |-> user, rows |-> {user}])
         ELSE Resp(route, 404, "User not found", [user |-> user, rows |-> {}])
    [] route = "GET /messages/unread/count" ->
         Resp(route, 200, "ok", [user |-> user, rows |-> {}])

\* A request to a read route: the middleware, then the handler if the
\* middleware calls next().
HttpRequest(route, h) ==
  /\ LET a == Middleware(route, h, secret, now)
     IN resp' = IF a.ok THEN Handler(route, db, a.user) ELSE Unauthorized(route)
  /\ UNCHANGED <<db, nextId, pc, req, now, secret, expiresEnv, tokens>>

AliceRow == [id |-> 1, username |-> "alice", email |-> <<"a", "@x.io">>,
             password_hash |-> Hash(Pw6)]
PortfolioRow(id) ==
  [user_id |-> id, summary |-> DefaultSummary, experience |-> DefaultPortfolioText,
   education |-> DefaultPortfolioText]

\* alice has registered at time 0 and holds her token.
InitAuth ==
  /\ db = [EmptyDb EXCEPT !.users = {AliceRow}, !.portfolios = {PortfolioRow(1)}]
  /\ nextId = 2
  /\ pc = [s \in Slots |-> "idle"]
  /\ req = [s \in Slots |-> NoReq]
  /\ resp = NoResp
  /\ now = 0
  /\ secret = "k1"
  /\ expiresEnv = None
  /\ tokens = {[token |-> generateToken(1, "k1", None, 0), user |-> 1, at |-> 0]}

NextAuth ==
  \/ Tick
  \/ \E k \in Keys : RotateKey(k)
  \/ \E route \in AuthRoutes, h \in Headers : HttpRequest(route, h)
  \/ \E s \in Slots, h \in Headers : DeleteAccount(s, h)

SpecAuth == InitAuth /\ [][NextAuth]_vars

\* ------------------------------------------------------ PUT /portfolios
PortfoliosOf(d, id) == {p \in d.portfolios : p.user_id = id}
TextFields == {"summary", "experience", "education"}
EmptyBody == [summary |-> None, experience |-> None, education |-> None,
              skills |-> None, featured_projects |-> None]

\* validations.updatePortfolio: skills and featured_projects, when present,
\* are arrays
PutPortfolioValid(body) ==
  /\ IsPresent(body.skills) => IsArray(ValueOf(body.skills))
  /\ IsPresent(body.featured_projects) => IsArray(ValueOf(body.featured_projects))

\* validations.updatePortfolio: the text fields, when present, are trimmed
PutPortfolioSanitize(body) ==
  [f \in DOMAIN body |->
     IF f \in TextFields /\ IsPresent(body[f]) THEN Some(Trim(ValueOf(body[f])))
     ELSE body[f]]

PortfolioUpdatesTruthy(body) ==
  [f \in {g \in TextFields : IsPresent(body[g]) /\ ValueOf(body[g]) # << >>}
     |-> ValueOf(body[f])]

\* if (x !== undefined) { updates.push(...); values.push(x) } for each field
PortfolioUpdates(body) ==
  [f \in {g \in TextFields : IsPresent(body[g])} |-> ValueOf(body[f])]

FieldStmts(uid, body) ==
  IF DOMAIN PortfolioUpdates(body) # {}
  THEN << [op |-> "update_portfolio", tx |-> TRUE, user_id |-> uid,
           set |-> PortfolioUpdates(body)] >>
  ELSE << >>

SkillStmtsSkipEmpty(uid, skills) ==
  IF IsPresent(skills) /\ IsArray(ValueOf(skills)) /\ Len(ValueOf(skills).v) > 0
  THEN << [op |-> "delete_skills", tx |-> TRUE, user_id |-> uid],
          [op |-> "insert_skills", tx |-> TRUE, user_id |-> uid,
           skills |-> ValueOf(skills).v] >>
  ELSE << >>

\* if (skills !== undefined && Array.isArray(skills)) { DELETE; INSERT }
SkillStmts(uid, skills) ==
  IF IsPresent(skills) /\ IsArray(ValueOf(skills))
  THEN << [op |-> "delete_skills", tx |-> TRUE, user_id |-> uid] >> \o
       (IF Len(ValueOf(skills).v) > 0
        THEN << [op |-> "insert_skills", tx |-> TRUE, user_id |-> uid,
                 skills |-> ValueOf(skills).v] >>
        ELSE << >>)
  ELSE << >>

FeaturedStmtsNoClear(uid, featured) ==
  IF IsPresent(featured) /\ IsArray(ValueOf(featured)) /\ Len(ValueOf(featured).v) > 0
  THEN << [op |-> "set_featured", tx |-> TRUE, user_id |-> uid,
           ids |-> ValueOf(featured).v] >>
  ELSE << >>

FeaturedStmtsClearWhenAbsent(uid, featured) ==
  IF IsPresent(featured) /\ IsArray(ValueOf(featured))
  THEN << [op |-> "clear_featured", tx |-> TRUE, user_id |-> uid] >> \o
       (IF Len(ValueOf(featured).v) > 0
        THEN << [op |-> "set_featured", tx |-> TRUE, user_id |-> uid,
                 ids |-> ValueOf(featured).v] >>
        ELSE << >>)
  ELSE << [op |-> "clear_featured", tx |-> TRUE, user_id |-> uid] >>

\* if (featured_projects !== undefined && Array.isArray(featured_projects))
\* { UPDATE ... false; UPDATE ... true WHERE user_id = $1 AND id IN (...) }
FeaturedStmts(uid, featured) ==
  IF IsPresent(featured) /\ IsArray(ValueOf(featured))
  THEN << [op |-> "clear_featured", tx |-> TRUE, user_id |-> uid] >> \o
       (IF Len(ValueOf(featured).v) > 0
        THEN << [op |-> "set_featured", tx |-> TRUE, user_id |-> uid,
                 ids |-> ValueOf(featured).v] >>
        ELSE << >>)
  ELSE << >>

PortfolioStmtsOnPool(uid, body) ==
  LET early == FieldStmts(uid, body) \o SkillStmts(uid, body.skills)
  IN [i \in DOMAIN early |-> [early[i] EXCEPT !.tx = FALSE]] \o
     FeaturedStmts(uid, body.featured_projects)

\* The transaction callback of the portfolio update
PortfolioStmts(uid, body) ==
  FieldStmts(uid, body) \o SkillStmts(uid, body.skills) \o
  FeaturedStmts(uid, body.featured_projects)

SkillsOf(d, uid) == {k.skill : k \in {r \in d.user_skills : r.user_id = uid}}

\* SELECT p.id, p.summary, ..., array_agg(DISTINCT us.skill) ... WHERE
\* p.user_id = $1: the rows fetched for the response
FetchPortfolio(d, uid) ==
  {[summary |-> p.summary, experience |-> p.experience, education |-> p.education,
    skills |-> SkillsOf(d, uid)] : p \in PortfoliosOf(d, uid)}

\* What the request asked for, kept with the response: the caller and the
\* shape of the two replace-set fields.
KindOf(o) ==
  IF ~IsPresent(o) THEN "absent"
  ELSE IF ~IsArray(ValueOf(o)) THEN "other"
  ELSE IF Len(ValueOf(o).v) = 0 THEN "empty" ELSE "nonempty"

Call(uid, body) ==
  [user |-> uid, skills |-> KindOf(body.skills),
   featured |-> body.featured_projects]

\* PUT /portfolios. fault numbers the statement of the handler that meets a
\* store fault: 1..n the statements of the transaction, n + 1 the SELECT
\* after it, 0 for none.
PutPortfolio(h, body, fault) ==
  /\ LET a == authenticate(h, secret, now)
         b == PutPortfolioSanitize(body)
         stmts == PortfolioStmts(a.user, b)
         r == transaction(db, stmts, fault)
         route == "PUT /portfolios"
     IN /\ fault <= Len(stmts) + 1
        /\ IF ~a.ok THEN fault = 0 /\ resp' = Unauthorized(route) /\ UNCHANGED db
           ELSE IF ~PutPortfolioValid(body)
           THEN fault = 0 /\ resp' = ValidationFailed(route) /\ UNCHANGED db
           ELSE /\ db' = r.db
                /\ resp' =
                     IF ~r.ok
                     THEN Resp(route, 500, "Error updating portfolio",
                               [error |-> r.err, call |-> Call(a.user, b)])
                     ELSE IF fault = Len(stmts) + 1
                     THEN Resp(route, 500, "Error updating portfolio",
                               [error |-> "StoreFault", call |-> Call(a.user, b)])
                     ELSE Resp(route, 200, "Portfolio updated successfully",
                               [rows |-> FetchPortfolio(r.db, a.user),
                                call |-> Call(a.user, b)])
  /\ UNCHANGED <<nextId, pc, req, now, secret, expiresEnv, tokens>>

\* ---------------------------------------- the portfolio specification
BobRow == [id |-> 2, username |-> "bob", email |-> <<"b", "@x.io">>,
           password_hash |-> Hash(Pw6)]
ProjectRow(id, owner) == [id |-> id, user_id |-> owner, is_featured |-> FALSE]

\* alice and bob have registered; alice has created projects 1 and 2, bob
\* project 3.
InitPortfolio ==
  /\ db = [EmptyDb EXCEPT !.users = {AliceRow, BobRow},
                          !.portfolios = {PortfolioRow(1), PortfolioRow(2)},
                          !.projects = {ProjectRow(1, 1), ProjectRow(2, 1),
                                        ProjectRow(3, 2)}]
  /\ nextId = 3
  /\ pc = [s \in Slots |-> "idle"]
  /\ req = [s \in Slots |-> NoReq]
  /\ resp = NoResp
  /\ now = 0
  /\ secret = "k1"
  /\ expiresEnv = None
  /\ tokens = {[token |-> generateToken(u, "k1", None, 0), user |-> u, at |-> 0]
                 : u \in {1, 2}}

WithField(f, v) == [EmptyBody EXCEPT ![f] = v]
SkillInputs == {Some(JOther), Some(JArray(<<>>)), Some(JArray(<<"js">>)),
                Some(JArray(<<"js", "go">>))}
\* project 4 does not exist; 0 is no UUID
FeaturedInputs == {Some(JOther), Some(JArray(<<>>)), Some(JArray(<<1>>)),
                   Some(JArray(<<1, 2>>)), Some(JArray(<<1, 3>>)),
                   Some(JArray(<<3, 4>>)), Some(JArray(<<2, 0>>))}
PortfolioBodies ==
  {EmptyBody}
  \cup {WithField("summary", t) : t \in {Some(<<>>), Some(<<SP, "s">>)}}
  \cup {WithField("experience", Some(<<"e", SP>>)), WithField("education", Some(<<SP>>))}
  \cup {WithField("skills", k) : k \in SkillInputs}
  \cup {WithField("featured_projects", f) : f \in FeaturedInputs}
  \cup {[summary |-> Some(<<"s">>), experience |-> Some(<<>>), education |-> None,
         skills |-> Some(JArray(<<"go">>)), featured_projects |-> f]
        : f \in {Some(JArray(<<2>>)), Some(JArray(<<2, 0>>))}}

\* bob sends featured lists only
BodiesOf(h) ==
  IF h.kind = "jwt" /\ h.userId = 1 THEN PortfolioBodies
  ELSE {EmptyBody} \cup {WithField("featured_projects", f) : f \in FeaturedInputs}

NextPortfolio ==
  \E h \in Headers : \E body \in BodiesOf(h), fault \in 0..6 :
    PutPortfolio(h, body, fault)

SpecPortfolio == InitPortfolio /\ [][NextPortfolio]_vars

\* ------------------------------------- POST /portfolios/featured/:projectId
ProjectsWith(d, pid) == {p \in d.projects : p.id = pid}
ToggleRoute == "POST /portfolios/featured/:projectId"
ToggleError(e) == Resp(ToggleRoute, 500, "Error updating featured status", [error |-> e])

\* SELECT id, is_featured FROM projects WHERE id = $1 AND user_id = $2
ToggleCheck(s, h, pid, fault) ==
  /\ pc[s] = "idle"
  /\ LET a == authenticate(h, secret, now)
         rows == {p \in ProjectsWith(db, pid) : p.user_id = a.user}
     IN IF ~a.ok
        THEN /\ fault = 0
             /\ resp' = Unauthorized(ToggleRoute)
             /\ UNCHANGED <<pc, req>>
        ELSE IF fault = 1 \/ ~IsUUID(pid)
        THEN /\ resp' = ToggleError(IF fault = 1 THEN "StoreFault" ELSE "22P02")
             /\ UNCHANGED <<pc, req>>
        ELSE IF rows = {}
        THEN /\ fault = 0
             /\ resp' = Resp(ToggleRoute, 404,
                             "Project not found or does not belong to you", NoData)
             /\ UNCHANGED <<pc, req>>
        ELSE /\ fault = 0
             /\ pc' = [pc EXCEPT ![s] = "toggle_update"]
             /\ req' = [req EXCEPT ![s] =
                          [route |-> ToggleRoute, projectId |-> pid,
                           currentStatus |-> (CHOOSE p \in rows : TRUE).is_featured]]
             /\ UNCHANGED resp
  /\ UNCHANGED <<db, nextId, now, secret, expiresEnv, tokens>>

\* UPDATE projects SET is_featured = $1 WHERE id = $2
Toggled(d, pid, status) ==
  [d EXCEPT !.projects = {IF p.id = pid THEN [p EXCEPT !.is_featured = status] ELSE p
                          : p \in d.projects}]

ToggleUpdate(s, fault) ==
  /\ pc[s] = "toggle_update"
  /\ LET pid == req[s].projectId
         status == ~req[s].currentStatus
     IN IF fault = 1
        THEN resp' = ToggleError("StoreFault") /\ UNCHANGED db
        ELSE /\ db' = Toggled(db, pid, status)
             /\ resp' = IF ProjectsWith(db, pid) = {}
                        THEN ToggleError("TypeError")
                        ELSE Resp(ToggleRoute, 200,
                                  IF status THEN "Project featured successfully"
                                  ELSE "Project unfeatured successfully",
                                  [project_id |-> pid, is_featured |-> status])
  /\ pc' = [pc EXCEPT ![s] = "idle"]
  /\ req' = [req EXCEPT ![s] = NoReq]
  /\ UNCHANGED <<nextId, now, secret, expiresEnv, tokens>>

\* ---------------------------------------------------- PUT /projects/:id
PutProjectRoute == "PUT /projects/:id"
ProjectBodies == {[title |-> None, is_featured |-> None],
                  [title |-> Some(<<"t">>), is_featured |-> None],
                  [title |-> None, is_featured |-> Some(TRUE)],
                  [title |-> Some(<<"t">>), is_featured |-> Some(FALSE)]}

\* if (x !== undefined) { updates.push(...) } for each field of the body; of
\* the columns of a project the model keeps is_featured
ProjectUpdates(body) ==
  [f \in {g \in {"title", "is_featured"} : IsPresent(body[g])} |-> ValueOf(body[f])]

UpdateProject(d, pid, set) ==
  [d EXCEPT !.projects =
     {IF p.id = pid /\ "is_featured" \in DOMAIN set
      THEN [p EXCEPT !.is_featured = set.is_featured] ELSE p : p \in d.projects}]

\* fault: 1 the SELECT of the ownership check, 2 the UPDATE, 0 none
PutProject(h, pid, body, fault) ==
  /\ LET a == authenticate(h, secret, now)
         rows == ProjectsWith(db, pid)
         set == ProjectUpdates(body)
         failed == Resp(PutProjectRoute, 500, "Error updating project",
                        [error |-> "StoreFault"])
     IN IF ~a.ok
        THEN fault = 0 /\ resp' = Unauthorized(PutProjectRoute) /\ UNCHANGED db
        ELSE IF ~IsUUID(pid)
        THEN fault = 0 /\ resp' = ValidationFailed(PutProjectRoute) /\ UNCHANGED db
        ELSE IF fault = 1
        THEN resp' = failed /\ UNCHANGED db
        ELSE IF rows = {}
        THEN /\ fault = 0
             /\ resp' = Resp(PutProjectRoute, 404, "Project not found", NoData)
             /\ UNCHANGED db
        ELSE IF (CHOOSE p \in rows : TRUE).user_id # a.user
        THEN /\ fault = 0
             /\ resp' = Resp(PutProjectRoute, 403,
                             "Not authorized to update this project", NoData)
             /\ UNCHANGED db
        ELSE IF DOMAIN set = {}
        THEN /\ fault = 0
             /\ resp' = Resp(PutProjectRoute, 400, "No fields to update", NoData)
             /\ UNCHANGED db
        ELSE IF fault = 2
        THEN resp' = failed /\ UNCHANGED db
        ELSE /\ db' = UpdateProject(db, pid, set)
             /\ resp' = Resp(PutProjectRoute, 200, "Project updated successfully",
                             [rows |-> ProjectsWith(UpdateProject(db, pid, set), pid)])
  /\ UNCHANGED <<nextId, pc, req, now, secret, expiresEnv, tokens>>

\* ------------------------------------- the featured-flag specification
\* the ids requests name: no UUID, a project of alice, bob's project, and an
\* id of no project
ProjectIdInputs == {0, 1, 3, 4}
\* the slots that serve toggle requests: at most MaxToggles are in flight
ToggleSlots == 1..MaxToggles
FeaturedBodies == {WithField("featured_projects", f) : f \in FeaturedInputs}

NextFeatured ==
  \/ \E h \in Headers, body \in FeaturedBodies \cup {EmptyBody}, fault \in 0..3 :
       PutPortfolio(h, body, fault)
  \/ \E s \in ToggleSlots, h \in Headers, pid \in ProjectIdInputs, fault \in 0..1 :
       ToggleCheck(s, h, pid, fault)
  \/ \E s \in ToggleSlots, fault \in 0..1 : ToggleUpdate(s, fault)
  \/ \E h \in Headers, pid \in ProjectIdInputs, body \in ProjectBodies,
         fault \in 0..2 : PutProject(h, pid, body, fault)

SpecFeatured == InitPortfolio /\ [][NextFeatured]_vars

\* ---------------------------------------------- the toggle specification
\* toggle requests alone, as many in flight as there are slots
NextToggle ==
  \/ \E s \in Slots, h \in Headers, pid \in ProjectIdInputs, fault \in 0..1 :
       ToggleCheck(s, h, pid, fault)
  \/ \E s \in Slots, fault \in 0..1 : ToggleUpdate(s, fault)

SpecToggle == InitPortfolio /\ [][NextToggle]_vars

\* ------------------------------------------------------ PUT /users/socials
\* A replace-set transaction at the store's default isolation level (READ
\* COMMITTED): its DELETE removes the rows of the user that are committed
\* when the statement runs, and rows that another transaction commits later
\* are not among them; its writes show at COMMIT.
RowsOfUser(rows, uid) == {r \in rows : r.user_id = uid}
CommitReplace(rows, deleted, new) == (rows \ deleted) \cup new

Platforms == <<"github", "linkedin", "twitter", "website">>
\* if (github) ..., if (linkedin) ...: JavaScript truthiness of a string
Truthy(o) == IsPresent(o) /\ ValueOf(o) # << >>

\* socials.push({platform, url}) for each truthy field, one INSERT for each
SocialRows(uid, body) ==
  {[user_id |-> uid, platform |-> Platforms[i], url |-> ValueOf(body[Platforms[i]])]
     : i \in {j \in DOMAIN Platforms : Truthy(body[Platforms[j]])}}

SocialsRoute == "PUT /users/socials"
SocialsError(e, uid, body) ==
  Resp(SocialsRoute, 500, "Error updating social links",
       [error |-> e, user |-> uid, body |-> body])

\* authenticate, BEGIN and the DELETE of the transaction. fault = 1: the
\* DELETE meets a store fault.
SocialsBegin(s, h, body, fault) ==
  /\ pc[s] = "idle"
  /\ LET a == authenticate(h, secret, now)
     IN IF ~a.ok
        THEN /\ fault = 0
             /\ resp' = Unauthorized(SocialsRoute)
             /\ UNCHANGED <<pc, req>>
        ELSE IF fault = 1
        THEN /\ resp' = SocialsError("StoreFault", a.user, body)
             /\ UNCHANGED <<pc, req>>
        ELSE /\ pc' = [pc EXCEPT ![s] = "socials_tx"]
             /\ req' = [req EXCEPT ![s] =
                          [route |-> SocialsRoute, user |-> a.user, body |-> body,
                           deleted |-> RowsOfUser(db.social_links, a.user)]]
             /\ UNCHANGED resp
  /\ UNCHANGED <<db, nextId, now, secret, expiresEnv, tokens>>

\* Rows that a transaction in flight has deleted and another transaction
\* has removed in the meantime are gone for it too.
AfterCommitOf(s, table, removed) ==
  [t \in Slots |->
     IF t = s THEN NoReq
     ELSE IF pc[t] = table THEN [req[t] EXCEPT !.deleted = @ \ removed]
     ELSE req[t]]

\* The INSERTs and the COMMIT. unique: the schema, which is not among the
\* sources, may or may not hold a unique key on (user_id, platform).
\* fault = 1: an INSERT or the COMMIT meets a store fault.
SocialsCommit(s, unique, fault) ==
  /\ pc[s] = "socials_tx"
  /\ LET uid == req[s].user
         new == SocialRows(uid, req[s].body)
         kept == db.social_links \ req[s].deleted
         clash == \E r \in new, q \in kept :
                    q.user_id = r.user_id /\ q.platform = r.platform
     IN IF fault = 1
        THEN /\ resp' = SocialsError("StoreFault", uid, req[s].body)
             /\ req' = [req EXCEPT ![s] = NoReq]
             /\ UNCHANGED db
        ELSE IF unique /\ clash
        THEN /\ resp' = SocialsError("23505", uid, req[s].body)
             /\ req' = [req EXCEPT ![s] = NoReq]
             /\ UNCHANGED db
        ELSE /\ db' = [db EXCEPT !.social_links =
                         CommitReplace(@, req[s].deleted, new)]
             /\ req' = AfterCommitOf(s, "socials_tx", req[s].deleted)
             /\ resp' = Resp(SocialsRoute, 200, "Social links updated successfully",
                             [user |-> uid, body |-> req[s].body])
  /\ pc' = [pc EXCEPT ![s] = "idle"]
  /\ UNCHANGED <<nextId, now, secret, expiresEnv, tokens>>

NoSocials == [github |-> None, linkedin |-> None, twitter |-> None, website |-> None]
SocialBodies ==
  {[NoSocials EXCEPT !.github = Some(<<"g1">>)],
   [NoSocials EXCEPT !.github = Some(<<"g2">>), !.website = Some(<< >>)],
   [NoSocials EXCEPT !.github = Some(<< >>), !.linkedin = Some(<<"l">>)]}
\* bob sends one body
SocialBodiesOf(h) ==
  IF h.kind = "jwt" /\ h.userId = 2
  THEN {[NoSocials EXCEPT !.twitter = Some(<<"t">>)]}
  ELSE SocialBodies

NextSocials ==
  \/ \E s \in Slots, h \in Headers, fault \in 0..1 :
       \E body \in SocialBodiesOf(h) : SocialsBegin(s, h, body, fault)
  \/ \E s \in Slots, unique \in BOOLEAN, fault \in 0..1 :
       SocialsCommit(s, unique, fault)

SpecSocials == InitPortfolio /\ [][NextSocials]_vars

\* ------------------------------------------------------- PUT /users/skills
SkillsRoute == "PUT /users/skills"
SkillsError(e, uid, skills) ==
  Resp(SkillsRoute, 500, "Error updating skills",
       [error |-> e, user |-> uid, skills |-> skills])

\* the rows of INSERT INTO user_skills (user_id, skill) VALUES ($1, $2), ...
\* which is issued if (skills.length > 0)
SkillRows(uid, skills) == {[user_id |-> uid, skill |-> x] : x \in Range(skills)}

SkillsBeginDeleteOnPool(s, h, skills, fault) ==
  /\ pc[s] = "idle"
  /\ LET a == authenticate(h, secret, now)
     IN IF ~a.ok
        THEN /\ fault = 0
             /\ resp' = Unauthorized(SkillsRoute)
             /\ UNCHANGED <<db, pc, req>>
        ELSE IF ~(IsPresent(skills) /\ IsArray(ValueOf(skills)))
        THEN /\ fault = 0
             /\ resp' = Resp(SkillsRoute, 400, "Skills must be an array", NoData)
             /\ UNCHANGED <<db, pc, req>>
        ELSE IF fault = 1
        THEN /\ resp' = SkillsError("StoreFault", a.user, ValueOf(skills).v)
             /\ UNCHANGED <<db, pc, req>>
        ELSE /\ pc' = [pc EXCEPT ![s] = "skills_tx"]
             /\ req' = [req EXCEPT ![s] =
                          [route |-> SkillsRoute, user |-> a.user,
                           skills |-> ValueOf(skills).v, deleted |-> {}]]
             /\ db' = [db EXCEPT !.user_skills = @ \ RowsOfUser(@, a.user)]
             /\ UNCHANGED resp
  /\ UNCHANGED <<nextId, now, secret, expiresEnv, tokens>>

\* authenticate, the Array.isArray check, BEGIN and the DELETE of the
\* transaction. fault = 1: the DELETE meets a store fault.
SkillsBegin(s, h, skills, fault) ==
  /\ pc[s] = "idle"
  /\ LET a == authenticate(h, secret, now)
     IN IF ~a.ok
        THEN /\ fault = 0
             /\ resp' = Unauthorized(SkillsRoute)
             /\ UNCHANGED <<pc, req>>
        ELSE IF ~(IsPresent(skills) /\ IsArray(ValueOf(skills)))
        THEN /\ fault = 0
             /\ resp' = Resp(SkillsRoute, 400, "Skills must be an array", NoData)
             /\ UNCHANGED <<pc, req>>
        ELSE IF fault = 1
        THEN /\ resp' = SkillsError("StoreFault", a.user, ValueOf(skills).v)
             /\ UNCHANGED <<pc, req>>
        ELSE /\ pc' = [pc EXCEPT ![s] = "skills_tx"]
             /\ req' = [req EXCEPT ![s] =
                          [route |-> SkillsRoute, user |-> a.user,
                           skills |-> ValueOf(skills).v,
                           deleted |-> RowsOfUser(db.user_skills, a.user)]]
             /\ UNCHANGED resp
  /\ UNCHANGED <<db, nextId, now, secret, expiresEnv, tokens>>

\* The INSERT and the COMMIT. unique: the schema, which is not among the
\* sources, may or may not hold a unique key on (user_id, skill).
\* fault = 1: the INSERT or the COMMIT meets a store fault.
SkillsCommit(s, unique, fault) ==
  /\ pc[s] = "skills_tx"
  /\ LET uid == req[s].user
         new == SkillRows(uid, req[s].skills)
         kept == db.user_skills \ req[s].deleted
     IN IF fault = 1
        THEN /\ resp' = SkillsError("StoreFault", uid, req[s].skills)
             /\ req' = [req EXCEPT ![s] = NoReq]
             /\ UNCHANGED db
        ELSE IF unique /\ new \cap kept # {}
        THEN /\ resp' = SkillsError("23505", uid, req[s].skills)
             /\ req' = [req EXCEPT ![s] = NoReq]
             /\ UNCHANGED db
        ELSE /\ db' = [db EXCEPT !.user_skills = CommitReplace(@, req[s].deleted, new)]
             /\ req' = AfterCommitOf(s, "skills_tx", req[s].deleted)
             /\ resp' = Resp(SkillsRoute, 200, "Skills updated successfully",
                             [user |-> uid, skills |-> req[s].skills])
  /\ pc' = [pc EXCEPT ![s] = "idle"]
  /\ UNCHANGED <<nextId, now, secret, expiresEnv, tokens>>

SkillBodies == {None, Some(JOther), Some(JArray(<< >>)), Some(JArray(<<"js">>)),
                Some(JArray(<<"go">>))}
\* bob sends one body
SkillBodiesOf(h) ==
  IF h.kind = "jwt" /\ h.userId = 2 THEN {Some(JArray(<<"js">>))} ELSE SkillBodies

NextSkills ==
  \/ \E s \in Slots, h \in Headers, fault \in 0..1 :
       \E skills \in SkillBodiesOf(h) : SkillsBegin(s, h, skills, fault)
  \/ \E s \in Slots, unique \in BOOLEAN, fault \in 0..1 :
       SkillsCommit(s, unique, fault)

SpecSkills == InitPortfolio /\ [][NextSkills]_vars

\* --------------------------------------------- PUT /portfolios in two steps
\* The statements of a transaction callback that are issued on the pool
\* take effect when they run; those on the client show at COMMIT.
RECURSIVE OnPool(_, _, _)
OnPool(d, stmts, i) ==
  IF i > Len(stmts) THEN d
  ELSE OnPool(IF stmts[i].tx THEN d ELSE Exec(d, stmts[i]).db, stmts, i + 1)

\* authenticate, validations.updatePortfolio, BEGIN and the callback's
\* statements. The UPDATEs of the callback lock the rows they write, so two
\* transactions of a user take effect in the order of their COMMITs.
PortfolioBegin(s, h, body) ==
  /\ pc[s] = "idle"
  /\ LET a == authenticate(h, secret, now)
         b == PutPortfolioSanitize(body)
         route == "PUT /portfolios"
     IN IF ~a.ok
        THEN resp' = Unauthorized(route) /\ UNCHANGED <<db, pc, req>>
        ELSE IF ~PutPortfolioValid(body)
        THEN resp' = ValidationFailed(route) /\ UNCHANGED <<db, pc, req>>
        ELSE /\ pc' = [pc EXCEPT ![s] = "portfolio_tx"]
             /\ req' = [req EXCEPT ![s] = [route |-> route, user |-> a.user, body |-> b]]
             /\ db' = OnPool(db, PortfolioStmts(a.user, b), 1)
             /\ UNCHANGED resp
  /\ UNCHANGED <<nextId, now, secret, expiresEnv, tokens>>

\* COMMIT (or ROLLBACK on a failed statement), the SELECT of the response
\* and the response
PortfolioCommit(s, fault) ==
  /\ pc[s] = "portfolio_tx"
  /\ LET uid == req[s].user
         stmts == PortfolioStmts(uid, req[s].body)
         r == transaction(db, stmts, fault)
         route == "PUT /portfolios"
     IN /\ fault <= Len(stmts) + 1
        /\ db' = r.db
        /\ resp' = IF ~r.ok
                   THEN Resp(route, 500, "Error updating portfolio",
                             [error |-> r.err, call |-> Call(uid, req[s].body)])
                   ELSE IF fault = Len(stmts) + 1
                   THEN Resp(route, 500, "Error updating portfolio",
                             [error |-> "StoreFault", call |-> Call(uid, req[s].body)])
                   ELSE Resp(route, 200, "Portfolio updated successfully",
                             [rows |-> FetchPortfolio(r.db, uid),
                              call |-> Call(uid, req[s].body)])
  /\ pc' = [pc EXCEPT ![s] = "idle"]
  /\ req' = [req EXCEPT ![s] = NoReq]
  /\ UNCHANGED <<nextId, now, secret, expiresEnv, tokens>>

\* ------------------------------------------------ GET /portfolios/:username
GetPortfolioRoute == "GET /portfolios/:username"

\* MAX(CASE WHEN sl.platform = ... THEN sl.url END): NULL over no row;
\* order lists the url texts of the requests in ascending order of the
\* store's collation
MaxUrl(urls) ==
  LET order == << <<"g1">>, <<"g2">>, <<"l">>, <<"t">> >>
      rank(url) == CHOOSE i \in DOMAIN order : order[i] = url
  IN IF urls = {} THEN None
     ELSE Some(CHOOSE u \in urls : \A v \in urls : rank(v) <= rank(u))

\* json_build_object('github', MAX(...), 'linkedin', MAX(...), ...)
SocialsOf(d, uid) ==
  [p \in Range(Platforms) |->
     MaxUrl({l.url : l \in {r \in RowsOfUser(d.social_links, uid) : r.platform = p}})]

\* json_agg(...) FILTER (WHERE proj.is_featured = true), as the set of the
\* ids it lists
FeaturedIds(d, uid) == {p.id : p \in {q \in d.projects : q.user_id = uid /\ q.is_featured}}

\* One SELECT over portfolios, users, user_skills, social_links and
\* projects WHERE u.username = $1. The names drawn pass
\* validations.usernameParam.
GetPortfolio(username) ==
  /\ LET users == {u \in db.users : u.username = username /\ PortfoliosOf(db, u.id) # {}}
     IN resp' = IF users = {}
                THEN Resp(GetPortfolioRoute, 404, "Portfolio not found", NoData)
                ELSE LET uid == (CHOOSE u \in users : TRUE).id
                     IN Resp(GetPortfolioRoute, 200, "ok",
                             [user_id |-> uid, skills |-> SkillsOf(db, uid),
                              socials |-> SocialsOf(db, uid),
                              featured_projects |-> FeaturedIds(db, uid)])
  /\ UNCHANGED <<db, nextId, pc, req, now, secret, expiresEnv, tokens>>

\* -------------------------------------------------- the reads specification
\* alice has the skill js, a github link and her project 1 featured
InitReads ==
  /\ db = [EmptyDb EXCEPT
            !.users = {AliceRow, BobRow},
            !.portfolios = {PortfolioRow(1), PortfolioRow(2)},
            !.user_skills = {[user_id |-> 1, skill |-> "js"]},
            !.social_links = {[user_id |-> 1, platform |-> "github", url |-> <<"g1">>]},
            !.projects = {[ProjectRow(1, 1) EXCEPT !.is_featured = TRUE],
                          ProjectRow(2, 1), ProjectRow(3, 2)}]
  /\ nextId = 3
  /\ pc = [s \in Slots |-> "idle"]
  /\ req = [s \in Slots |-> NoReq]
  /\ resp = NoResp
  /\ now = 0
  /\ secret = "k1"
  /\ expiresEnv = None
  /\ tokens = {[token |-> generateToken(1, "k1", None, 0), user |-> 1, at |-> 0]}

ReadNames == {"alice", "bob", "carol"}
ReadsSkills == {Some(JArray(<<"go">>)), Some(JOther)}
ReadsSocials == {[NoSocials EXCEPT !.linkedin = Some(<<"l">>)]}
ReadsPortfolios == {WithField("featured_projects", Some(JArray(<<2>>))),
                    WithField("featured_projects", Some(JOther))}

NextReads ==
  \/ \E s \in Slots, h \in Headers, skills \in ReadsSkills, fault \in 0..1 :
       SkillsBegin(s, h, skills, fault)
  \/ \E s \in Slots, unique \in BOOLEAN, fault \in 0..1 : SkillsCommit(s, unique, fault)
  \/ \E s \in Slots, h \in Headers, body \in ReadsSocials, fault \in 0..1 :
       SocialsBegin(s, h, body, fault)
  \/ \E s \in Slots, unique \in BOOLEAN, fault \in 0..1 : SocialsCommit(s, unique, fault)
  \/ \E s \in Slots, h \in Headers, body \in ReadsPortfolios : PortfolioBegin(s, h, body)
  \/ \E s \in Slots, fault \in 0..3 : PortfolioCommit(s, fault)
  \/ \E username \in ReadNames : GetPortfolio(username)

SpecReads == InitReads /\ [][NextReads]_vars

\* ------------------------------------------------------------- messages
\* validations.uuidParam: param('id').isUUID(). params are the route
\* parameters of the request by name; a parameter the route does not have
\* is undefined, which is no UUID.
uuidParam(params) == "id" \in DOMAIN params /\ IsUUID(params.id)

UserExists(d, uid) == \E u \in d.users : u.id = uid
MessagesWith(d, mid) == {m \in d.messages : m.id = mid}
Unread(d, uid) == {m \in d.messages : m.recipient_id = uid /\ ~m.is_read}

\* validations.sendMessage: recipient_id is a UUID, the trimmed message is
\* not empty
SendMessageValid(recipient, text) == IsUUID(recipient) /\ Trim(text) # << >>

\* INSERT INTO messages (sender_id, recipient_id, message): is_read takes the
\* column's default
NewMessageRead(id, sender, recipient, text) ==
  [id |-> id, sender_id |-> sender, recipient_id |-> recipient,
   message |-> Trim(text), is_read |-> TRUE]
NewMessage(id, sender, recipient, text) ==
  [id |-> id, sender_id |-> sender, recipient_id |-> recipient,
   message |-> Trim(text), is_read |-> FALSE]

SendRoute == "POST /messages"
\* POST /messages. fault: 1 the SELECT of the recipient, 2 the INSERT.
SendMessage(h, recipient, text, fault) ==
  /\ LET a == authenticate(h, secret, now)
         row == NewMessage(db.message_seq + 1, a.user, recipient, text)
         failed == Resp(SendRoute, 500, "Error sending message",
                        [error |-> "StoreFault"])
     IN IF ~a.ok
        THEN fault = 0 /\ resp' = Unauthorized(SendRoute) /\ UNCHANGED db
        ELSE IF ~SendMessageValid(recipient, text)
        THEN fault = 0 /\ resp' = ValidationFailed(SendRoute) /\ UNCHANGED db
        ELSE IF fault = 1
        THEN resp' = failed /\ UNCHANGED db
        ELSE IF ~UserExists(db, recipient)
        THEN /\ fault = 0
             /\ resp' = Resp(SendRoute, 404, "Recipient not found", [user |-> a.user])
             /\ UNCHANGED db
        ELSE IF recipient = a.user
        THEN /\ fault = 0
             /\ resp' = Resp(SendRoute, 400, "Cannot send message to yourself",
                             [user |-> a.user])
             /\ UNCHANGED db
        ELSE IF fault = 2
        THEN resp' = failed /\ UNCHANGED db
        ELSE IF ~UserExists(db, a.user)
        THEN /\ resp' = Resp(SendRoute, 500, "Error sending message",
                             [error |-> "23503"])
             /\ UNCHANGED db
        ELSE /\ db.message_seq < MaxMessages
             /\ db' = [db EXCEPT !.messages = @ \cup {row},
                                 !.message_seq = @ + 1]
             /\ resp' = Resp(SendRoute, 201, "Message sent successfully",
                             [rows |-> {row}])
  /\ UNCHANGED <<nextId, pc, req, now, secret, expiresEnv, tokens>>

ReadRoute == "PUT /messages/:messageId/read"
\* UPDATE messages SET is_read = true WHERE id = $1 AND recipient_id = $2
MarkedRead(d, mid, uid) ==
  [d EXCEPT !.messages = {IF m.id = mid /\ m.recipient_id = uid
                          THEN [m EXCEPT !.is_read = TRUE] ELSE m : m \in @}]

MarkReadAnyCaller(h, mid, fault) ==
  /\ LET a == authenticate(h, secret, now)
         rows == MessagesWith(db, mid)
     IN IF ~a.ok
        THEN fault = 0 /\ resp' = Unauthorized(ReadRoute) /\ UNCHANGED db
        ELSE IF fault = 1
        THEN /\ resp' = Resp(ReadRoute, 500, "Error marking message as read",
                             [error |-> "StoreFault"])
             /\ UNCHANGED db
        ELSE IF rows = {}
        THEN /\ resp' = Resp(ReadRoute, 404, "Message not found or not authorized",
                             [user |-> a.user, messageId |-> mid])
             /\ UNCHANGED db
        ELSE /\ db' = [db EXCEPT !.messages =
                         {IF m.id = mid THEN [m EXCEPT !.is_read = TRUE] ELSE m
                          : m \in @}]
             /\ resp' = Resp(ReadRoute, 200, "Message marked as read",
                             [user |-> a.user, messageId |-> mid])
  /\ UNCHANGED <<nextId, pc, req, now, secret, expiresEnv, tokens>>

\* PUT /messages/:messageId/read. fault = 1: the UPDATE meets a store fault.
MarkRead(h, mid, fault) ==
  /\ LET a == authenticate(h, secret, now)
         rows == {m \in MessagesWith(db, mid) : m.recipient_id = a.user}
     IN IF ~a.ok
        THEN fault = 0 /\ resp' = Unauthorized(ReadRoute) /\ UNCHANGED db
        ELSE IF ~uuidParam([messageId |-> mid])
        THEN /\ fault = 0
             /\ resp' = Resp(ReadRoute, 400, "Validation failed",
                             [user |-> a.user, messageId |-> mid])
             /\ UNCHANGED db
        ELSE IF fault = 1
        THEN /\ resp' = Resp(ReadRoute, 500, "Error marking message as read",
                             [error |-> "StoreFault"])
             /\ UNCHANGED db
        ELSE IF rows = {}
        THEN /\ resp' = Resp(ReadRoute, 404, "Message not found or not authorized",
                             [user |-> a.user, messageId |-> mid])
             /\ UNCHANGED db
        ELSE /\ db' = MarkedRead(db, mid, a.user)
             /\ resp' = Resp(ReadRoute, 200, "Message marked as read",
                             [user |-> a.user, messageId |-> mid])
  /\ UNCHANGED <<nextId, pc, req, now, secret, expiresEnv, tokens>>

DeleteMessageRoute == "DELETE /messages/:messageId"
\* DELETE /messages/:messageId. fault = 1: the DELETE meets a store fault.
DeleteMessage(h, mid, fault) ==
  /\ LET a == authenticate(h, secret, now)
         rows == {m \in MessagesWith(db, mid) : m.sender_id = a.user}
     IN IF ~a.ok
        THEN fault = 0 /\ resp' = Unauthorized(DeleteMessageRoute) /\ UNCHANGED db
        ELSE IF ~uuidParam([messageId |-> mid])
        THEN /\ fault = 0
             /\ resp' = Resp(DeleteMessageRoute, 400, "Validation failed",
                             [user |-> a.user, messageId |-> mid])
             /\ UNCHANGED db
        ELSE IF fault = 1
        THEN /\ resp' = Resp(DeleteMessageRoute, 500, "Error deleting message",
                             [error |-> "StoreFault"])
             /\ UNCHANGED db
        ELSE IF rows = {}
        THEN /\ resp' = Resp(DeleteMessageRoute, 404,
                             "Message not found or not authorized to delete",
                             [user |-> a.user, messageId |-> mid])
             /\ UNCHANGED db
        ELSE /\ db' = [db EXCEPT !.messages = @ \ rows]
             /\ resp' = Resp(DeleteMessageRoute, 200, "Message deleted successfully",
                             [user |-> a.user, messageId |-> mid])
  /\ UNCHANGED <<nextId, pc, req, now, secret, expiresEnv, tokens>>

ThreadRoute == "GET /messages/:userId"

\* SELECT ... WHERE (sender, recipient) is (a, b) or (b, a) ORDER BY
\* m.created_at ASC LIMIT $3 OFFSET $4 (identifiers of messages grow with
\* their time of creation; the INNER JOIN drops messages whose sender is
\* gone)
Thread(d, a, b) ==
  {m \in d.messages : /\ \/ m.sender_id = a /\ m.recipient_id = b
                         \/ m.sender_id = b /\ m.recipient_id = a
                      /\ UserExists(d, m.sender_id)}
PageOf(rows, limit, offset) ==
  {m \in rows : LET before == Cardinality({x \in rows : x.id < m.id})
                IN offset <= before /\ before < offset + limit}

\* UPDATE messages SET is_read = true WHERE recipient_id = $1 AND
\* sender_id = $2 AND is_read = false
ThreadRead(d, uid, other) ==
  [d EXCEPT !.messages = {IF m.recipient_id = uid /\ m.sender_id = other
                          THEN [m EXCEPT !.is_read = TRUE] ELSE m : m \in @}]

\* GET /messages/:userId?limit=&offset=, which marks the messages of the
\* other user to the caller as read
GetMessages(h, other, limit, offset) ==
  /\ LET a == authenticate(h, secret, now)
     IN IF ~a.ok
        THEN resp' = Unauthorized(ThreadRoute) /\ UNCHANGED db
        ELSE IF ~uuidParam([userId |-> other])
        THEN /\ resp' = Resp(ThreadRoute, 400, "Validation failed",
                             [user |-> a.user, userId |-> other])
             /\ UNCHANGED db
        ELSE IF ~UserExists(db, other)
        THEN /\ resp' = Resp(ThreadRoute, 404, "User not found",
                             [user |-> a.user, userId |-> other])
             /\ UNCHANGED db
        ELSE /\ db' = ThreadRead(db, a.user, other)
             /\ resp' = Resp(ThreadRoute, 200, "none",
                             [user |-> a.user, userId |-> other,
                              rows |-> PageOf(Thread(db, a.user, other), limit, offset)])
  /\ UNCHANGED <<nextId, pc, req, now, secret, expiresEnv, tokens>>

\* GET /messages/unread/count
UnreadCount(h) ==
  /\ LET a == authenticate(h, secret, now)
         route == "GET /messages/unread/count"
     IN resp' = IF ~a.ok THEN Unauthorized(route)
                ELSE Resp(route, 200, "none",
                          [user |-> a.user,
                           unread_count |-> Cardinality(Unread(db, a.user))])
  /\ UNCHANGED <<db, nextId, pc, req, now, secret, expiresEnv, tokens>>

OtherUser(m, uid) == IF m.sender_id = uid THEN m.recipient_id ELSE m.sender_id
\* SELECT DISTINCT ON (other_user_id) ... ORDER BY other_user_id,
\* m.created_at DESC: the latest message with each other user (identifiers
\* of messages grow with their time of creation)
ConversationRows(d, uid) ==
  LET mine == {m \in d.messages : (m.sender_id = uid \/ m.recipient_id = uid)
                                   /\ UserExists(d, OtherUser(m, uid))}
  IN {[user |-> OtherUser(m, uid), is_read |-> m.is_read,
       sent_by_me |-> (m.sender_id = uid)]
        : m \in {x \in mine : \A y \in mine :
                    OtherUser(y, uid) = OtherUser(x, uid) => y.id <= x.id}}

\* GET /messages/conversations
Conversations(h) ==
  /\ LET a == authenticate(h, secret, now)
         route == "GET /messages/conversations"
     IN resp' = IF ~a.ok THEN Unauthorized(route)
                ELSE Resp(route, 200, "none",
                          [user |-> a.user, rows |-> ConversationRows(db, a.user)])
  /\ UNCHANGED <<db, nextId, pc, req, now, secret, expiresEnv, tokens>>

\* no UUID, alice, bob, and the identifier of no user
RecipientInputs == {0, 1, 2, 3}
MessageTexts == {<<"h", "i">>, <<SP>>}
MessageIdInputs == 0..MaxMessages
\* req.query.limit (50 when absent) and req.query.offset (0 when absent)
LimitInputs == {1, 50}
OffsetInputs == {0, 1}

NextMessages ==
  \/ \E h \in Headers, recipient \in RecipientInputs, text \in MessageTexts,
         fault \in 0..2 : SendMessage(h, recipient, text, fault)
  \/ \E h \in Headers, mid \in MessageIdInputs, fault \in 0..1 : MarkRead(h, mid, fault)
  \/ \E h \in Headers, mid \in MessageIdInputs, fault \in 0..1 :
       DeleteMessage(h, mid, fault)
  \/ \E h \in Headers, other \in RecipientInputs, limit \in LimitInputs,
         offset \in OffsetInputs : GetMessages(h, other, limit, offset)
  \/ \E h \in Headers : UnreadCount(h)
  \/ \E h \in Headers : Conversations(h)
  \/ \E s \in Slots, h \in Headers : DeleteAccount(s, h)

SpecMessages == InitPortfolio /\ [][NextMessages]_vars

\* --------------------------------------------------- DELETE /projects/:id
DeleteProjectRoute == "DELETE /projects/:id"

\* checkResult.rows[0].user_id !== req.user.id
NotOwnerAlways(rows, uid) == FALSE
NotOwner(rows, uid) == (CHOOSE p \in rows : TRUE).user_id # uid

\* DELETE FROM projects WHERE id = $1
DeletedProject(d, pid) == [d EXCEPT !.projects = d.projects \ ProjectsWith(d, pid)]

\* fault: 1 the SELECT of the ownership check, 2 the DELETE, 0 none
DeleteProject(h, pid, fault) ==
  /\ LET a == authenticate(h, secret, now)
         rows == ProjectsWith(db, pid)
         failed == Resp(DeleteProjectRoute, 500, "Error deleting project",
                        [error |-> "StoreFault"])
     IN IF ~a.ok
        THEN fault = 0 /\ resp' = Unauthorized(DeleteProjectRoute) /\ UNCHANGED db
        ELSE IF ~uuidParam([id |-> pid])
        THEN fault = 0 /\ resp' = ValidationFailed(DeleteProjectRoute) /\ UNCHANGED db
        ELSE IF fault = 1
        THEN resp' = failed /\ UNCHANGED db
        ELSE IF rows = {}
        THEN /\ fault = 0
             /\ resp' = Resp(DeleteProjectRoute, 404, "Project not found", NoData)
             /\ UNCHANGED db
        ELSE IF NotOwner(rows, a.user)
        THEN /\ fault = 0
             /\ resp' = Resp(DeleteProjectRoute, 403,
                             "Not authorized to delete this project", NoData)
             /\ UNCHANGED db
        ELSE IF fault = 2
        THEN resp' = failed /\ UNCHANGED db
        ELSE /\ db' = DeletedProject(db, pid)
             /\ resp' = Resp(DeleteProjectRoute, 200, "Project deleted successfully",
                             NoData)
  /\ UNCHANGED <<nextId, pc, req, now, secret, expiresEnv, tokens>>

\* --------------------------------------------- the projects specification
NextProjects ==
  \/ \E h \in Headers, pid \in ProjectIdInputs, body \in ProjectBodies,
         fault \in 0..2 : PutProject(h, pid, body, fault)
  \/ \E h \in Headers, pid \in ProjectIdInputs, fault \in 0..2 :
       DeleteProject(h, pid, fault)
  \/ \E s \in Slots, h \in Headers : DeleteAccount(s, h)

SpecProjects == InitPortfolio /\ [][NextProjects]_vars

\* ---------------------------------------------- POST /auth/change-password
ChangePasswordRoute == "POST /auth/change-password"
MinNewPasswordLength == 6

\* A field of the JSON body that is a string or a number; a number is kept
\* as its numeral
JString(text) == [t |-> "string", v |-> text]
JNumber(numeral) == [t |-> "number", v |-> numeral]

\* !x of a field of the body: it is missing, the empty string or 0
Falsy(o) == ~IsPresent(o) \/ ValueOf(o).v = (IF ValueOf(o).t = "string" THEN << >> ELSE <<"0">>)

\* newPassword.length < 6: a number has no length, and undefined < 6 is false
TooShort(j) == j.t = "string" /\ Len(j.v) < MinNewPasswordLength

\* bcrypt.compare(password, hash) of a string
Compare(password, hash) == hash = Hash(password)

\* UPDATE users SET password_hash = $1 WHERE id = $2
UpdatePassword(d, uid, hash) ==
  [d EXCEPT !.users = {IF u.id = uid THEN [u EXCEPT !.password_hash = hash] ELSE u
                       : u \in d.users}]

ChangePasswordError(e) ==
  Resp(ChangePasswordRoute, 500, "Error changing password", [error |-> e])

\* fault: 1 the SELECT, 2 the UPDATE, 0 none
ChangePassword(h, body, fault) ==
  /\ LET a == authenticate(h, secret, now)
         rows == {u \in db.users : u.id = a.user}
         current == ValueOf(body.currentPassword)
         new == ValueOf(body.newPassword)
     IN IF ~a.ok
        THEN fault = 0 /\ resp' = Unauthorized(ChangePasswordRoute) /\ UNCHANGED db
        ELSE IF Falsy(body.currentPassword) \/ Falsy(body.newPassword)
        THEN /\ fault = 0
             /\ resp' = Resp(ChangePasswordRoute, 400,
                             "Current password and new password are required", NoData)
             /\ UNCHANGED db
        ELSE IF TooShort(new)
        THEN /\ fault = 0
             /\ resp' = Resp(ChangePasswordRoute, 400,
                             "New password must be at least 6 characters long", NoData)
             /\ UNCHANGED db
        ELSE IF fault = 1
        THEN resp' = ChangePasswordError("StoreFault") /\ UNCHANGED db
        ELSE IF rows = {}
        THEN \* user is undefined: user.password_hash throws
             fault = 0 /\ resp' = ChangePasswordError("TypeError") /\ UNCHANGED db
        ELSE IF current.t # "string"
        THEN \* bcrypt.compare rejects a value that is no string
             fault = 0 /\ resp' = ChangePasswordError("Illegal arguments") /\ UNCHANGED db
        ELSE IF ~Compare(current.v, (CHOOSE u \in rows : TRUE).password_hash)
        THEN /\ fault = 0
             /\ resp' = Resp(ChangePasswordRoute, 401, "Current password is incorrect",
                             NoData)
             /\ UNCHANGED db
        ELSE IF new.t # "string"
        THEN \* bcrypt.hash rejects a value that is no string
             fault = 0 /\ resp' = ChangePasswordError("Illegal arguments") /\ UNCHANGED db
        ELSE IF fault = 2
        THEN resp' = ChangePasswordError("StoreFault") /\ UNCHANGED db
        ELSE /\ db' = UpdatePassword(db, a.user, Hash(new.v))
             /\ resp' = Resp(ChangePasswordRoute, 200, "Password changed successfully",
                             NoData)
  /\ UNCHANGED <<nextId, pc, req, now, secret, expiresEnv, tokens>>

\* ------------------------------------------------------- POST /auth/login
LoginRoute == "POST /auth/login"

\* validations.login, the SELECT by e-mail address and bcrypt.compare: the
\* status of the response; fault 1 is a store fault of the SELECT
LoginStatus(d, email, password, fault) ==
  LET rows == {u \in d.users : u.email = normalizeEmail(Trim(email))}
  IN IF Trim(email) = << >> \/ password = << >> THEN 400
     ELSE IF fault = 1 THEN 500
     ELSE IF rows = {} THEN 401
     ELSE IF ~Compare(password, (CHOOSE u \in rows : TRUE).password_hash) THEN 401
     ELSE 200

\* delete user.password_hash
LoginUserWithHash(row) == row
LoginUser(row) == [k \in DOMAIN row \ {"password_hash"} |-> row[k]]

\* The response of POST /auth/login on store d; token is the token that
\* generateToken makes for the user found
LoginResponse(d, email, password, fault, key, env, t) ==
  LET status == LoginStatus(d, email, password, fault)
      user == CHOOSE u \in d.users : u.email = normalizeEmail(Trim(email))
  IN IF status = 400 THEN ValidationFailed(LoginRoute)
     ELSE IF status = 500
     THEN Resp(LoginRoute, 500, "Error logging in", [error |-> "StoreFault"])
     ELSE IF status = 401
     THEN Resp(LoginRoute, 401, "Invalid email or password", NoData)
     ELSE Resp(LoginRoute, 200, "Login successful",
               [user |-> LoginUser(user),
                token |-> generateToken(user.id, key, env, t)])

Login(email, password, fault) ==
  /\ LET r == LoginResponse(db, email, password, fault, secret, expiresEnv, now)
     IN /\ resp' = r
        /\ tokens' = IF r.status = 200
                     THEN tokens \cup {[token |-> r.data.token, user |-> r.data.user.id,
                                        at |-> now]}
                     ELSE tokens
  /\ UNCHANGED <<db, nextId, pc, req, now, secret, expiresEnv>>

\* --------------------------------------------- the password specification
Pw7 == <<"n", "e", "w", "p", "a", "s", "s">>
PasswordFields ==
  {None, Some(JString(<< >>)), Some(JString(Pw5)), Some(JString(Pw6)),
   Some(JString(Pw7)), Some(JNumber(<<"1", "2", "3", "4", "5", "6", "7">>))}
ChangePasswordBodies == [currentPassword : PasswordFields, newPassword : PasswordFields]

\* the addresses of alice and bob, an address of no user and a blank one
LoginEmails == RawEmails \cup {<<"c", "@x.io">>, <<SP>>}
LoginPasswords == {<< >>, Pw6, Pw7}

NextPassword ==
  \/ \E h \in Headers, body \in ChangePasswordBodies, fault \in 0..2 :
       ChangePassword(h, body, fault)
  \/ \E email \in LoginEmails, password \in LoginPasswords, fault \in 0..1 :
       Login(email, password, fault)
  \/ \E s \in Slots, h \in Headers : DeleteAccount(s, h)

SpecPassword == InitPortfolio /\ [][NextPassword]_vars

\* ------------------------------------------------------ PUT /users/profile
ProfileRoute == "PUT /users/profile"

\* validations.updateProfile: an email that is present is, once trimmed, an
\* address (the addresses drawn are well formed unless blank), and is
\* normalized
UpdateProfileValid(body) == IsPresent(body.email) => Trim(ValueOf(body.email)) # << >>
UpdateProfileSanitize(body) ==
  [body EXCEPT !.email = IF IsPresent(@) THEN Some(normalizeEmail(Trim(ValueOf(@)))) ELSE @]

\* if (x !== undefined) { updates.push(...) } for each field of the body; of
\* the columns that the route writes the model keeps email
ProfileUpdates(body) ==
  [f \in {g \in {"name", "email"} : IsPresent(body[g])} |-> ValueOf(body[f])]

\* UPDATE users SET ... WHERE id = $n, under the unique key on users.email
UpdateUserNoKey(d, uid, set) ==
  Ok([d EXCEPT !.users = {IF u.id = uid /\ "email" \in DOMAIN set
                          THEN [u EXCEPT !.email = set.email] ELSE u : u \in @}])
UpdateUser(d, uid, set) ==
  IF /\ "email" \in DOMAIN set
     /\ \E u \in d.users : u.id = uid
     /\ \E v \in d.users : v.id # uid /\ v.email = set.email
  THEN Fail(d, "23505")
  ELSE Ok([d EXCEPT !.users = {IF u.id = uid /\ "email" \in DOMAIN set
                               THEN [u EXCEPT !.email = set.email] ELSE u : u \in @}])

\* fault = 1: the UPDATE meets a store fault
PutProfile(h, body, fault) ==
  /\ LET a == authenticate(h, secret, now)
         set == ProfileUpdates(UpdateProfileSanitize(body))
         r == UpdateUser(db, a.user, set)
     IN IF ~a.ok
        THEN fault = 0 /\ resp' = Unauthorized(ProfileRoute) /\ UNCHANGED db
        ELSE IF ~UpdateProfileValid(body)
        THEN fault = 0 /\ resp' = ValidationFailed(ProfileRoute) /\ UNCHANGED db
        ELSE IF DOMAIN set = {}
        THEN /\ fault = 0
             /\ resp' = Resp(ProfileRoute, 400, "No fields to update", NoData)
             /\ UNCHANGED db
        ELSE IF fault = 1
        THEN /\ resp' = Resp(ProfileRoute, 500, "Error updating profile",
                             [error |-> "StoreFault"])
             /\ UNCHANGED db
        ELSE IF ~r.ok
        THEN /\ resp' = Resp(ProfileRoute, 400, "Email already in use", NoData)
             /\ UNCHANGED db
        ELSE /\ db' = r.db
             /\ resp' = Resp(ProfileRoute, 200, "Profile updated successfully",
                             [rows |-> {[id |-> u.id, username |-> u.username,
                                         email |-> u.email]
                                          : u \in {v \in r.db.users : v.id = a.user}}])
  /\ UNCHANGED <<nextId, pc, req, now, secret, expiresEnv, tokens>>

\* --------------------------------------------- the profile specification
ProfileBodies ==
  [name : {None, Some(<<"n">>)},
   email : {None, Some(<<SP>>), Some(<<"A", "@x.io">>), Some(<<"b", "@x.io">>),
            Some(<<"c", "@x.io">>)}]

\* the registrations are those with a password that passes validation
NextProfile ==
  \/ \E s \in Slots, body \in {b \in RegisterBodies : b.password = Pw6} :
       RegisterCheck(s, body, 0)
  \/ \E s \in Slots : RegisterTx(s, 0)
  \/ \E h \in Headers, body \in ProfileBodies, fault \in 0..1 : PutProfile(h, body, fault)

SpecProfile == Init /\ [][NextProfile]_vars

\* =============================================================== claims
DuplicateMessage == "User with this email or username already exists"
DefaultPortfolio(id) ==
  [user_id |-> id,
   summary |-> <<"Professional developer with a passion for building great software.">>,
   experience |-> <<>>, education |-> <<>>]

\* C1: a registration request with a valid payload whose username and e-mail
\* are unused when the handler checks and when it inserts, and that meets no
\* store fault, goes on from the check to the transaction and is answered 201
\* with a token that verifies to the identifier of the user row it created;
\* right after the response that user has exactly one portfolio row, with the
\* default placeholder text.
C1_RegisterSucceeds ==
  [][\A s \in Slots :
       /\ \A body \in RegisterBodies :
            (/\ RegisterCheck(s, body, 0)
             /\ RegisterValid(body)
             /\ existingUser(db, RegisterSanitize(body)) = {})
            => pc'[s] = "reg_tx" /\ req'[s].body = RegisterSanitize(body)
       /\ (RegisterTx(s, 0) /\ existingUser(db, req[s].body) = {})
            => /\ resp'.status = 201
               /\ verify(resp'.data.token, secret', now') = Verified(resp'.data.user)
               /\ resp'.data.user \notin {u.id : u \in db.users}
               /\ \E u \in db'.users :
                    /\ u.id = resp'.data.user
                    /\ u.username = req[s].body.username
                    /\ u.email = req[s].body.email
               /\ PortfoliosOf(db', resp'.data.user) = {DefaultPortfolio(resp'.data.user)}
  ]_vars

C1_Witness ==
  /\ resp.route = "register" /\ resp.status = 201
  /\ resp.data.user = 2
  /\ Cardinality(db.users) = 2
  /\ PortfoliosOf(db, 2) = {DefaultPortfolio(2)}

\* C2: a registration request with a valid payload whose e-mail or username
\* is that of an existing user when the handler checks is answered 400
\* DuplicateUser, does not go on to the transaction and leaves the store as
\* it was.
C2_DuplicateRejected ==
  [][\A s \in Slots, body \in RegisterBodies :
       (/\ RegisterCheck(s, body, 0)
        /\ RegisterValid(body)
        /\ \E u \in db.users :
             u.email = normalizeEmail(body.email) \/ u.username = body.username)
       => /\ resp'.status = 400 /\ resp'.message = DuplicateMessage
          /\ pc'[s] = "idle"
          /\ db' = db
  ]_vars

C2_Witness ==
  /\ resp.route = "register" /\ resp.status = 400 /\ resp.message = DuplicateMessage
  /\ Cardinality(db.users) = 1 /\ Cardinality(db.portfolios) = 1

\* C3 (as claimed): a registration whose insert the store rejects on the
\* uniqueness constraint, after its pre-check passed, is answered 400.
C3_RejectedInsertIs400 ==
  [][\A s \in Slots :
       (RegisterTx(s, 0) /\ UniqueViolation(db, req[s].body.username, req[s].body.email))
       => resp'.status = 400
  ]_vars

\* C4: in every reachable state each user has exactly one portfolio and each
\* portfolio belongs to an existing user; a registration transaction that is
\* not answered 201 leaves the store as it was.
OneToOne ==
  /\ \A u \in db.users : Cardinality(PortfoliosOf(db, u.id)) = 1
  /\ \A p \in db.portfolios : \E u \in db.users : u.id = p.user_id

C4_UserPortfolioOneToOne ==
  /\ []OneToOne
  /\ [][\A s \in Slots, fault \in 0..2 :
         (RegisterTx(s, fault) /\ resp'.status # 201) => db' = db]_vars

C4_Witness ==
  /\ resp.route = "register" /\ resp.status = 500 /\ resp.data.error = "StoreFault"
  /\ Cardinality(db.users) = 1 /\ Cardinality(db.portfolios) = 1
  /\ \E s \in Slots : pc[s] = "reg_tx"

\* C5: a token issued for user u verifies to u at any time before its TTL
\* (JWT_EXPIRES_IN, 7 days when unset) has elapsed since it was issued, is
\* Expired at any time from then on, and is InvalidSignature whenever the
\* signing key is no longer the key it was signed with.
ConfiguredTTL == IF expiresEnv = <<>> THEN 7 ELSE expiresEnv[1]

C5_TokenRoundTrip ==
  \A x \in tokens :
    LET r == verify(x.token, secret, now)
    IN IF x.token.key # secret THEN ~r.ok /\ r.error = "InvalidSignature"
       ELSE IF now - x.at >= ConfiguredTTL THEN ~r.ok /\ r.error = "Expired"
       ELSE r.ok /\ r.userId = x.user

C5_Witness ==
  /\ expiresEnv = <<>>
  /\ \E x \in tokens :
       /\ x.at = 1 /\ now = 8 /\ x.token.key = secret
       /\ verify(x.token, secret, now).error = "Expired"

\* C6: on a protected route a request without Authorization header is
\* answered 401; on an optional-auth route (GET /users, GET /projects) it is
\* handled with no identity; a header whose token is malformed, expired or
\* signed with another key is answered 401 on both kinds of route; a request
\* answered 401 reaches no handler (no data, store unchanged); a valid token
\* attaches its user.
OptionalRoutes == {"GET /users", "GET /projects"}
ValidToken(h) == h.kind = "jwt" /\ h.key = secret /\ now < h.exp

C6_MissingVersusInvalid ==
  [][\A route \in AuthRoutes, h \in Headers :
       HttpRequest(route, h) =>
         /\ (h = NoHeader /\ route \notin OptionalRoutes) => resp'.status = 401
         /\ (h = NoHeader /\ route \in OptionalRoutes)
              => resp'.status = 200 /\ resp'.data.user = 0
         /\ (h # NoHeader /\ ~ValidToken(h)) => resp'.status = 401
         /\ (h # NoHeader /\ ValidToken(h))
              => resp'.status # 401 /\ resp'.data.user = h.userId
         /\ resp'.status = 401 => resp'.data = NoData /\ db' = db
  ]_vars

C6_Witness ==
  /\ resp.route = "GET /users" /\ resp.status = 401
  /\ now >= 7 /\ secret = "k1"

PutRoute == "PUT /portfolios"
\* The step answers an authenticated and valid portfolio update: the
\* response carries the call
Answered == resp'.route = PutRoute /\ "call" \in DOMAIN resp'.data
\* ... of the bearer of h
Caller(h) == h.kind = "jwt" /\ resp'.data.call.user = h.userId
\* ... with this body
Asked(h, body) == resp'.data.call = Call(h.userId, PutPortfolioSanitize(body))
PutFaults == 0..6
OwnedIds(d, uid) == {p.id : p \in {q \in d.projects : q.user_id = uid}}
FeaturedOf(d, uid) ==
  {p.id : p \in {q \in d.projects : q.user_id = uid /\ q.is_featured}}
ForeignProjects(d, uid) == {p \in d.projects : p.user_id # uid}
LastCall == IF "call" \in DOMAIN resp.data THEN resp.data.call
            ELSE [user |-> 0, skills |-> "none", featured |-> None]

\* C7: no successful portfolio update whose skills field is the empty
\* array leaves the caller a skill row, and no portfolio update that omits
\* the skills field, whatever its outcome, changes the caller's skill rows.
C7_EmptySkillsVersusOmitted ==
  [][Answered =>
       \A h \in Headers : Caller(h) =>
         \A body \in PortfolioBodies : Asked(h, body) =>
           \A fault \in PutFaults :
             /\ (/\ body.skills = Some(JArray(<< >>))
                 /\ resp'.status = 200
                 /\ SkillsOf(db', h.userId) # {})
                  => ~PutPortfolio(h, body, fault)
             /\ (/\ body.skills = None
                 /\ SkillsOf(db', h.userId) # SkillsOf(db, h.userId))
                  => ~PutPortfolio(h, body, fault)]_vars

\* alice is answered 200 on an empty skills array: she has no skill row,
\* and the portfolio fetched for the response lists none
C7_Witness ==
  /\ resp.route = PutRoute /\ resp.status = 200
  /\ LastCall.user = 1 /\ LastCall.skills = "empty"
  /\ SkillsOf(db, 1) = {}
  /\ \E r \in resp.data.rows : r.skills = {}

\* C8: after a successful portfolio update of caller c with the featured
\* list L, the featured projects of c are exactly the projects of c whose
\* id is in L; ids of L that belong to other users (or to nobody) cause no
\* error, and the projects of other users are unchanged.
C8_FeaturedReplaceSet ==
  [][Answered =>
       \A h \in Headers : Caller(h) =>
         \A body \in PortfolioBodies :
           /\ Asked(h, body)
           /\ IsPresent(body.featured_projects)
           /\ \A i \in Range(ValueOf(body.featured_projects).v) : IsUUID(i)
           /\ PutPortfolio(h, body, 0)
           => /\ resp'.status = 200
              /\ FeaturedOf(db', h.userId) =
                   OwnedIds(db, h.userId) \cap Range(ValueOf(body.featured_projects).v)
              /\ ForeignProjects(db', h.userId) = ForeignProjects(db, h.userId)]_vars

\* alice is answered 200 on the list <<1, 3>>: her project 1 is featured,
\* her project 2 is not, and project 3 is still bob's and as he left it
C8_Witness ==
  /\ resp.route = PutRoute /\ resp.status = 200
  /\ LastCall.user = 1 /\ LastCall.featured = Some(JArray(<<1, 3>>))
  /\ FeaturedOf(db, 1) = {1}
  /\ FeaturedOf(db, 2) = {3}

FlagChanged ==
  \E p \in db.projects, q \in db'.projects :
    p.id = q.id /\ p.is_featured # q.is_featured
ByReplaceSet ==
  /\ resp'.route = PutRoute
  /\ \E h \in Headers, body \in FeaturedBodies, fault \in PutFaults :
       PutPortfolio(h, body, fault)
ByToggle ==
  /\ resp'.route = ToggleRoute
  /\ \E s \in Slots, fault \in 0..1 : ToggleUpdate(s, fault)
ByOwnerProjectUpdate ==
  /\ resp'.route = PutProjectRoute
  /\ \E h \in Headers, pid \in ProjectIdInputs, body \in ProjectBodies :
       /\ h.kind = "jwt"
       /\ pid \in OwnedIds(db, h.userId)
       /\ IsPresent(body.is_featured)
       /\ PutProject(h, pid, body, 0)

\* C9 as the specification states it: the is_featured flag of a project
\* changes only in a step of the featured replace-set of PUT /portfolios
\* or of the toggle POST /portfolios/featured/:projectId.
C9_FlagOnlyViaPortfolioRoutes ==
  [][FlagChanged => ByReplaceSet \/ ByToggle]_vars

\* C9, amended: the is_featured flag of a project changes only in a step
\* of the featured replace-set, of the toggle, or of a PUT /projects/:id
\* of the project's owner whose body carries is_featured.
C9_FlagOnlyViaOwnerRoutes ==
  [][FlagChanged => ByReplaceSet \/ ByToggle \/ ByOwnerProjectUpdate]_vars

\* PUT /projects/:id has answered 200 with project 1 featured, and no
\* replace-set or toggle is behind it
C9_Witness ==
  /\ resp.route = PutProjectRoute /\ resp.status = 200
  /\ \E r \in resp.data.rows : r.id = 1 /\ r.is_featured
  /\ FeaturedOf(db, 1) = {1}

\* C10: no portfolio update in whose transaction a statement fails (a
\* store fault at any of them, or an id of the featured list that is no
\* UUID) changes portfolios, skill rows or featured flags, and its one
\* response is the error (500).
C10_PortfolioUpdateRollsBack ==
  [][Answered /\ resp'.status # 200 /\ ~(db' = db /\ resp'.status = 500) =>
       \A h \in Headers : Caller(h) =>
         \A body \in PortfolioBodies : Asked(h, body) =>
           \A fault \in 0..Len(PortfolioStmts(h.userId, PutPortfolioSanitize(body))) :
             ~PutPortfolio(h, body, fault)]_vars

\* alice's update with summary, skills ["go"] and the list <<2, 0>> was
\* answered 500 by the store's rejection of the id 0, and neither "go" nor
\* the summary nor the flag of project 2 is in the store
C10_Witness ==
  /\ resp.route = PutRoute /\ resp.status = 500
  /\ resp.data.error = "22P02"
  /\ LastCall.user = 1 /\ LastCall.skills = "nonempty"
  /\ "go" \notin SkillsOf(db, 1)
  /\ 2 \notin FeaturedOf(db, 1)
  /\ \A p \in PortfoliosOf(db, 1) : p.summary = DefaultSummary

OnePerPlatform ==
  \A r, q \in db.social_links :
    r.user_id = q.user_id /\ r.platform = q.platform => r = q

\* C11: after a successful PUT /users/socials the caller's social-link
\* rows are exactly one row for each platform whose request value is
\* truthy, and in every reachable state a user has at most one row for a
\* platform.
C11_SocialsReplaceSet ==
  /\ [][\A s \in Slots, unique \in BOOLEAN :
          SocialsCommit(s, unique, 0) /\ resp'.status = 200 =>
            RowsOfUser(db'.social_links, req[s].user)
              = SocialRows(req[s].user, req[s].body)]_vars
  /\ []OnePerPlatform

\* The portfolio row of uid in d has, in every field of the body that is
\* present, the trimmed value of the request, and in every other field
\* the value of the row in d0.
FieldsFollow(d0, d, uid, body) ==
  \A p \in PortfoliosOf(d, uid) : \A p0 \in PortfoliosOf(d0, uid) :
    \A f \in TextFields :
      p[f] = IF IsPresent(body[f]) THEN Trim(ValueOf(body[f])) ELSE p0[f]

\* C12: no successful portfolio update leaves a text field that is present
\* in the request, the empty string included, with another value than the
\* request's, or changes a text field that the request omits.
C12_FieldsByPresence ==
  [][Answered /\ resp'.status = 200 =>
       \A h \in Headers : Caller(h) =>
         \A body \in PortfolioBodies : Asked(h, body) =>
           (~FieldsFollow(db, db', h.userId, body) => ~PutPortfolio(h, body, 0))]_vars

\* alice is answered 200 and her summary is the empty string, which only
\* a request with summary "" writes, while her experience is still the
\* text of an earlier request
C12_Witness ==
  /\ resp.route = PutRoute /\ resp.status = 200 /\ LastCall.user = 1
  /\ \A p \in PortfoliosOf(db, 1) : p.summary = << >> /\ p.experience = <<"e">>
  /\ \E r \in resp.data.rows : r.summary = << >> /\ r.experience = <<"e">>

Authenticated(h) == h.kind = "jwt" /\ authenticate(h, secret, now).ok

\* C13: PUT /messages/:messageId/read by the recipient of the message is
\* answered 200 whether the message is unread or already read, and leaves
\* it read.
C13_MarkReadIdempotent ==
  [][\A h \in Headers, mid \in MessageIdInputs :
       /\ Authenticated(h)
       /\ \E m \in MessagesWith(db, mid) : m.recipient_id = h.userId
       /\ MarkRead(h, mid, 0)
       => /\ resp'.status = 200
          /\ \A m \in MessagesWith(db', mid) : m.is_read]_vars

\* C14: DELETE /messages/:messageId of an existing message is answered 404
\* (never 403) and leaves the row when the caller is not its sender, and is
\* answered 200 and removes the row when the caller is its sender.
C14_DeleteMessageBySender ==
  [][\A h \in Headers, mid \in MessageIdInputs :
       /\ Authenticated(h)
       /\ MessagesWith(db, mid) # {}
       /\ DeleteMessage(h, mid, 0)
       => IF \E m \in MessagesWith(db, mid) : m.sender_id = h.userId
          THEN resp'.status = 200 /\ MessagesWith(db', mid) = {}
          ELSE resp'.status = 404 /\ db' = db]_vars

\* C15: in every reachable state an authenticated POST /messages whose
\* recipient_id is the caller's identifier is answered 400 and adds no
\* message.
C15_SelfMessageIs400 ==
  [][\A h \in Headers, text \in MessageTexts :
       Authenticated(h) /\ SendMessage(h, h.userId, text, 0)
       => resp'.status = 400 /\ db'.messages = db.messages]_vars

\* C16: when alice sends bob the first message, bob's unread count is 1
\* and his conversation list has alice with sent_by_me false; when bob then
\* marks that message read, his unread count is 0.
C16_UnreadCountScenario ==
  [][/\ \A h \in Headers :
          /\ Authenticated(h) /\ h.userId = 1 /\ db.messages = {}
          /\ SendMessage(h, 2, <<"h", "i">>, 0) /\ resp'.status = 201
          => /\ Cardinality(Unread(db', 2)) = 1
             /\ \E c \in ConversationRows(db', 2) : c.user = 1 /\ ~c.sent_by_me
     /\ \A h \in Headers, mid \in MessageIdInputs :
          /\ Authenticated(h) /\ h.userId = 2
          /\ Unread(db, 2) = MessagesWith(db, mid) /\ MessagesWith(db, mid) # {}
          /\ MarkRead(h, mid, 0)
          => Cardinality(Unread(db', 2)) = 0]_vars

\* C17: an authenticated request that names a project by an identifier of
\* no UUID shape, on the toggle route or on PUT /projects/:id, is answered
\* 400 and leaves the store and the requests in flight as they are.
C17_MalformedIdIs400 ==
  [][\A h \in Headers : Authenticated(h) =>
       /\ \A s \in ToggleSlots :
            ToggleCheck(s, h, 0, 0) => resp'.status = 400 /\ db' = db
       /\ \A body \in ProjectBodies :
            PutProject(h, 0, body, 0) => resp'.status = 400 /\ db' = db]_vars

\* The projects with identifier pid have an owner and it is not uid.
OwnedByOther(d, pid, uid) == \E p \in ProjectsWith(d, pid) : p.user_id # uid
ProjectFaults == 0..2

\* C18: PUT /projects/:id and DELETE /projects/:id answer 404 for a
\* well-formed id of no project and 403 for a project of another user, and
\* leave the projects table as it is in both cases; every step that changes
\* or removes a project is a request of the project's owner.
C18_OwnerOnlyProjectWrites ==
  [][/\ \A h \in Headers, pid \in ProjectIdInputs :
          Authenticated(h) /\ IsUUID(pid) =>
            \A fault \in ProjectFaults :
              (\/ DeleteProject(h, pid, fault)
               \/ \E body \in ProjectBodies : PutProject(h, pid, body, fault))
              => /\ ProjectsWith(db, pid) = {} =>
                      /\ db'.projects = db.projects
                      /\ fault = 0 => resp'.status = 404
                 /\ OwnedByOther(db, pid, h.userId) =>
                      /\ db'.projects = db.projects
                      /\ fault = 0 => resp'.status = 403
     /\ \A p \in db.projects \ db'.projects :
          \E h \in Headers :
            /\ Authenticated(h) /\ h.userId = p.user_id
            /\ \/ DeleteProject(h, p.id, 0)
               \/ \E body \in ProjectBodies : PutProject(h, p.id, body, 0)
               \/ \E s \in Slots : DeleteAccount(s, h)]_vars

\* bob's DELETE of alice's project 1 has just been answered 403 and
\* project 1 is there as alice's update left it, after bob removed his own
\* project 3
C18_Witness ==
  /\ resp.route = DeleteProjectRoute /\ resp.status = 403
  /\ ProjectsWith(db, 1) # {} /\ ProjectsWith(db, 3) = {} /\ UserExists(db, 2)
  /\ \E p \in ProjectsWith(db, 1) : p.is_featured

\* The e-mail addresses of the user uid in store d
EmailsOf(d, uid) == {u.email : u \in {v \in d.users : v.id = uid}}

\* C19: POST /auth/change-password by an authenticated caller, with no
\* store fault, is answered 200, 401 or 400; a 401 or 400 leaves the users
\* table as it is; after a 200 that changed the password to another one, a
\* login of the caller with the new password is answered 200 and a login
\* with the old one 401.
C19_ChangePasswordOutcomes ==
  [][\A h \in Headers : Authenticated(h) =>
       \A body \in ChangePasswordBodies : ChangePassword(h, body, 0) =>
         /\ resp'.status \in {200, 401, 400}
         /\ resp'.status \in {401, 400} => db'.users = db.users
         /\ resp'.status = 200 /\ body.currentPassword # body.newPassword =>
              \A email \in EmailsOf(db, h.userId) :
                /\ LoginStatus(db', email, ValueOf(body.newPassword).v, 0) = 200
                /\ LoginStatus(db', email, ValueOf(body.currentPassword).v, 0) = 401]_vars

\* C20: when a skill replace-set of a user commits right after another
\* replace-set of the same user has been answered 200, the user's skills
\* are the set of one of the two requests, never a union or other mixture.
C20_LastCommitWins ==
  [][\A s \in Slots, unique \in BOOLEAN :
       /\ resp.route = SkillsRoute /\ resp.status = 200
       /\ pc[s] = "skills_tx" /\ resp.data.user = req[s].user
       /\ SkillsCommit(s, unique, 0) /\ resp'.status = 200
       => SkillsOf(db', req[s].user) \in {Range(req[s].skills), Range(resp.data.skills)}]_vars

\* The slot s ends the transaction of its replace-set request of user uid
\* in this step, having run it from the state named tx.
Committed(s, uid, tx) == pc[s] = tx /\ pc'[s] = "idle" /\ req[s].user = uid

\* C21: a read of a user's skills, social links and featured projects
\* shows every row that a replace-set transaction in flight has deleted and
\* not committed; and the user's committed skills, links and featured
\* projects change only in the step that commits a replace-set of that
\* user, which shows the complete new set with it.
C21_ReadsSeeNoIntermediateState ==
  [][/\ \A username \in ReadNames : GetPortfolio(username) /\ resp'.status = 200 =>
          \A s \in Slots :
            /\ pc[s] = "skills_tx" /\ req[s].user = resp'.data.user_id =>
                 {k.skill : k \in req[s].deleted} \subseteq resp'.data.skills
            /\ pc[s] = "socials_tx" /\ req[s].user = resp'.data.user_id =>
                 \A l \in req[s].deleted : resp'.data.socials[l.platform] = Some(l.url)
     /\ \A uid \in UserIds :
          /\ SkillsOf(db', uid) # SkillsOf(db, uid) =>
               \E s \in Slots : /\ Committed(s, uid, "skills_tx")
                                /\ Range(req[s].skills) \subseteq SkillsOf(db', uid)
          /\ SocialsOf(db', uid) # SocialsOf(db, uid) =>
               \E s \in Slots : /\ Committed(s, uid, "socials_tx")
                                /\ SocialRows(uid, req[s].body) \subseteq db'.social_links
          /\ FeaturedIds(db', uid) # FeaturedIds(db, uid) =>
               \E s \in Slots :
                 /\ Committed(s, uid, "portfolio_tx")
                 /\ FeaturedIds(db', uid) =
                      OwnedIds(db, uid) \cap Range(ValueOf(req[s].body.featured_projects).v)]_vars

\* a read of alice's portfolio is answered with her old skill, link and
\* featured project while a skills, a socials or a portfolio replace-set
\* of hers is in flight after another has committed
C21_Witness ==
  /\ resp.route = GetPortfolioRoute /\ resp.status = 200 /\ resp.data.user_id = 1
  /\ resp.data.skills = {"js"} /\ resp.data.featured_projects = {2}
  /\ \E s \in Slots : pc[s] = "skills_tx" /\ req[s].user = 1 /\ req[s].deleted # {}

\* C22: in no step does a message change its text, sender or recipient;
\* a step that changes its is_read flag is a mark-read or a thread read of
\* a caller authenticated as its recipient; a step that removes it is a
\* delete of a caller authenticated as its sender or the deletion of the
\* account of its sender or recipient.
C22_MessagesImmutable ==
  [][\A m \in db.messages :
       /\ \A n \in MessagesWith(db', m.id) :
            /\ n.message = m.message
            /\ n.sender_id = m.sender_id /\ n.recipient_id = m.recipient_id
            /\ n.is_read # m.is_read =>
                 \E h \in Headers :
                   /\ Authenticated(h) /\ h.userId = m.recipient_id
                   /\ \/ MarkRead(h, m.id, 0)
                      \/ \E limit \in LimitInputs, offset \in OffsetInputs :
                           GetMessages(h, m.sender_id, limit, offset)
       /\ MessagesWith(db', m.id) = {} =>
            \E h \in Headers :
              /\ Authenticated(h)
              /\ \/ h.userId = m.sender_id /\ DeleteMessage(h, m.id, 0)
                 \/ /\ h.userId \in {m.sender_id, m.recipient_id}
                    /\ \E s \in Slots : DeleteAccount(s, h)]_vars

\* bob's account has just been deleted and the message that alice had
\* sent him went with it, while alice is there
C22_Witness ==
  /\ resp.route = "delete_account" /\ resp.status = 200
  /\ db.message_seq > 0 /\ db.messages = {}
  /\ UserExists(db, 1) /\ ~UserExists(db, 2)

UsersWithEmail(d, email) == {u \in d.users : u.email = normalizeEmail(Trim(email))}
\* The login with email and password is refused for the reason given: no
\* user has the address, or the user's password is another.
UnknownEmail(d, email) == Trim(email) # << >> /\ UsersWithEmail(d, email) = {}
WrongPassword(d, email, password) ==
  \E u \in UsersWithEmail(d, email) : ~Compare(password, u.password_hash)

C24_ErrorsLeaveStore ==
  [][\A h \in Headers : \A body \in BodiesOf(h), fault \in PutFaults :
       PutPortfolio(h, body, fault) /\ resp'.status \notin 200..299 => db' = db]_vars

\* C25: with toggle requests alone, in sequence or in flight together,
\* every toggle of the owner that completes with 200 leaves the project's
\* is_featured the negation of what it was, so that n of them leave the
\* initial value for even n and its negation for odd n; a toggle of
\* another user's project is answered 404 and changes nothing.
C25_ToggleParity ==
  [][/\ \A s \in Slots :
          ToggleUpdate(s, 0) /\ resp'.status = 200 =>
            \A p \in ProjectsWith(db, req[s].projectId) :
              \A q \in ProjectsWith(db', p.id) : q.is_featured = ~p.is_featured
     /\ \A s \in Slots, h \in Headers, pid \in ProjectIdInputs :
          /\ Authenticated(h) /\ OwnedByOther(db, pid, h.userId)
          /\ ToggleCheck(s, h, pid, 0)
          => resp'.status = 404 /\ UNCHANGED <<db, pc, req>>]_vars

\* The messages whose is_read flag differs between the stores d and e
ReadChanged(d, e) ==
  {m \in d.messages : \E n \in MessagesWith(e, m.id) : n.is_read # m.is_read}

UniqueUsers(d) ==
  \A u, v \in d.users : u # v => u.email # v.email /\ u.username # v.username /\ u.id # v.id

C28_IsReadMonotonic ==
  [][/\ \A n \in db'.messages :
          /\ MessagesWith(db, n.id) = {} => ~n.is_read
          /\ \A m \in MessagesWith(db, n.id) : m.is_read => n.is_read
     /\ \A u \in UserIds :
          /\ Cardinality(Unread(db', u)) > Cardinality(Unread(db, u)) =>
               \E h \in Headers, text \in MessageTexts :
                 Authenticated(h) /\ h.userId # u /\ SendMessage(h, u, text, 0)
          /\ Cardinality(Unread(db', u)) < Cardinality(Unread(db, u)) =>
               \E h \in Headers :
                 /\ Authenticated(h)
                 /\ \/ /\ h.userId = u
                       /\ \/ \E mid \in MessageIdInputs : MarkRead(h, mid, 0)
                          \/ \E other \in RecipientInputs, limit \in LimitInputs,
                                 offset \in OffsetInputs :
                               GetMessages(h, other, limit, offset)
                    \/ \E mid \in MessageIdInputs : DeleteMessage(h, mid, 0)
                    \/ \E s \in Slots : DeleteAccount(s, h)]_vars

\* alice has just sent bob a second message and both are unread
C28_Witness ==
  /\ resp.route = SendRoute /\ resp.status = 201
  /\ Cardinality(Unread(db, 2)) = 2
  /\ \A m \in Unread(db, 2) : m.sender_id = 1
====
